---- MODULE Spec2Model ----
(***************************************************************************)
(* A model of Alexia's agentic execution loop (alexia/core/session.py),    *)
(* its tool catalog (alexia/tools) and its background process supervisor   *)
(* (alexia/core/process_manager.py).                                       *)
(***************************************************************************)
EXTENDS Integers, Sequences, FiniteSets, TLC

(***************************************************************************)
(* Bounds of the model.                                                    *)
(***************************************************************************)
\* conversation turns the model lets history grow to
MaxHistory == 3
\* tokens of one model output
MaxRespLen == 2

(***************************************************************************)
(* The file system the session walks.  A path is a sequence of components; *)
(* the root is the empty sequence.  /lnk is a symbolic link to /home/proj. *)
(***************************************************************************)
Dirs == { <<>>, <<"home">>, <<"home", "proj">>, <<"lnk">> }

Realpath(p) == IF p = <<"lnk">> THEN <<"home", "proj">> ELSE p

\* what expanduser("~") may be on the machine
HomeChoices == { <<"home">>, <<"lnk">> }

\* a path string as the user or the model writes it
PathArg(kind, parts) == [kind |-> kind, parts |-> parts]

PathArgs ==
    { PathArg("empty", <<>>),
      PathArg("tilde", <<>>),
      PathArg("nonstring", <<>>),
      PathArg("abs", <<"home", "proj">>),
      PathArg("abs", <<"lnk">>),
      PathArg("abs", <<"nodir">>),
      PathArg("rel", <<"proj">>),
      PathArg("rel", <<"..">>),
      PathArg("rel", <<"~", "proj">>) }

\* os.path.normpath on the components of an absolute path
RECURSIVE Normpath(_, _)
Normpath(done, rest) ==
    IF rest = <<>> THEN done
    ELSE IF Head(rest) = "." THEN Normpath(done, Tail(rest))
    ELSE IF Head(rest) = ".."
         THEN Normpath(IF done = <<>> THEN <<>> ELSE SubSeq(done, 1, Len(done) - 1),
                       Tail(rest))
    ELSE Normpath(Append(done, Head(rest)), Tail(rest))

\* os.path.abspath(os.path.join(cur, parts))
Abspath(cur, parts) == Normpath(<<>>, cur \o parts)

(***************************************************************************)
(* The tool catalog.  A catalog is the sequence of its tools in insertion  *)
(* order (a Python dict); a tool carries its name and the keyword          *)
(* parameters its implementation accepts.                                  *)
(***************************************************************************)
\* tool.py, lines 21-24: args_schema is the list of the declared parameters,
\* each with its name and type; required and optional are the keyword
\* parameters of func
Tool(name, description, required, optional, args_schema) ==
    [name |-> name, description |-> description,
     required |-> required, optional |-> optional, args_schema |-> args_schema]

\* one entry of an args_schema
Arg(name, type) == [name |-> name, type |-> type]

read_file_tool ==
    Tool("read_file", "Reads the entire content of a specified file.",
         {"file_path"}, {}, << Arg("file_path", "string") >>)

list_directory_tool ==
    Tool("list_directory", "Lists the contents of a directory.",
         {"directory_path"}, {"show_hidden"},
         << Arg("directory_path", "string"), Arg("show_hidden", "boolean") >>)

write_file_tool ==
    Tool("write_file", "Writes content to a file.",
         {"file_path", "content"}, {"mode"},
         << Arg("file_path", "string"), Arg("content", "string"), Arg("mode", "string") >>)

change_directory_tool ==
    Tool("change_directory", "Changes the current working directory.",
         {"directory_path"}, {}, << Arg("directory_path", "string") >>)

\* the position of name among the tools, 0 when it is not there
IndexOfName(tools, name) ==
    IF \E i \in 1..Len(tools) : tools[i].name = name
    THEN CHOOSE i \in 1..Len(tools) : tools[i].name = name
    ELSE 0

\* {tool.name: tool for tool in tools}: a later tool of the same name takes
\* the place of the earlier one
RECURSIVE ToolRegistryInit(_, _)
ToolRegistryInit(reg, tools) ==
    IF tools = <<>> THEN reg
    ELSE LET t == Head(tools)
             i == IndexOfName(reg, t.name)
         IN  ToolRegistryInit(IF i = 0 THEN Append(reg, t) ELSE [reg EXCEPT ![i] = t],
                              Tail(tools))

\* the catalog ChatSession.__init__ builds
tool_registry ==
    ToolRegistryInit(<<>>, << read_file_tool, list_directory_tool,
                              write_file_tool, change_directory_tool >>)

(***************************************************************************)
(* JSON values the model may emit for the fields of a tool call.           *)
(***************************************************************************)
JStr(s) == [type |-> "str", s |-> s]

JNull == [type |-> "null", s |-> ""]

JList == [type |-> "list", s |-> ""]

\* a JSON object given as arguments: its keys and its directory_path entry
ArgsDict(keys, path) == [type |-> "dict", keys |-> keys, directory_path |-> path]

\* arguments that are no JSON object (a list, a string, a number)
ArgsList == [type |-> "list", keys |-> {}, directory_path |-> PathArg("empty", <<>>)]

EmptyArgs == ArgsDict({}, PathArg("empty", <<>>))

\* a decoded JSON object: which of the fields tool_name, arguments and plan
\* it has at its top level and their values (of a plan, the tool names of
\* its steps)
Obj(htn, tn, ha, args, plan) ==
    [has_tool_name |-> htn, tool_name |-> tn,
     has_arguments |-> ha, arguments |-> args,
     has_plan |-> plan # <<>>, plan |-> plan]

NullObj == Obj(FALSE, JNull, FALSE, EmptyArgs, <<>>)

CdObj(path) ==
    Obj(TRUE, JStr("change_directory"), TRUE, ArgsDict({"directory_path"}, path), <<>>)

\* the objects model outputs are made of
Objects ==
    { Obj(TRUE, JStr("read_file"), TRUE, ArgsDict({"file_path"}, PathArg("empty", <<>>)), <<>>),
      Obj(TRUE, JStr("read_file"), FALSE, EmptyArgs, <<>>),
      Obj(TRUE, JStr("write_file"), TRUE, ArgsList, <<>>),
      Obj(TRUE, JStr("list_dir"), TRUE, ArgsDict({"directory_path"}, PathArg("rel", <<".">>)), <<>>),
      Obj(TRUE, JList, TRUE, EmptyArgs, <<>>),
      Obj(TRUE, JStr("change_directory"), FALSE, EmptyArgs, <<>>),
      Obj(TRUE, JStr("change_directory"), TRUE, ArgsList, <<>>),
      CdObj(PathArg("abs", <<"home", "proj">>)),
      CdObj(PathArg("abs", <<"nodir">>)),
      Obj(FALSE, JNull, FALSE, EmptyArgs, << "read_file", "write_file" >>),
      Obj(FALSE, JNull, FALSE, EmptyArgs, <<>>) }

(***************************************************************************)
(* Model output is a sequence of tokens: prose, an opening ```json fence,  *)
(* a closing ``` fence, a stray brace, or the text of one JSON object.     *)
(***************************************************************************)
Tok(t) == [t |-> t, obj |-> NullObj]

ObjTok(o) == [t |-> "OBJ", obj |-> o]

Tokens == { Tok("P"), Tok("FO"), Tok("FC"), Tok("LB"), Tok("RB") } \cup { ObjTok(o) : o \in Objects }

RECURSIVE SeqsUpTo(_, _)
SeqsUpTo(S, n) ==
    IF n = 0 THEN { <<>> }
    ELSE LET shorter == SeqsUpTo(S, n - 1)
         IN  shorter \cup { Append(s, x) : s \in shorter, x \in S }

\* the outputs the session is run on: prose and ```json fences around at
\* most one object (ParserTexts below has the outputs with more)
SessionTokens == { tok \in Tokens : tok.t \in {"P", "FO", "OBJ"} }

Responses ==
    { text \in SeqsUpTo(SessionTokens, MaxRespLen) :
          \A i, j \in 1..Len(text) : (text[i].t = "OBJ" /\ text[j].t = "OBJ") => i = j }

\* a request for a tool of the catalog, with the arguments it takes
ReadNotes ==
    Obj(TRUE, JStr("read_file"), TRUE, ArgsDict({"file_path"}, PathArg("empty", <<>>)), <<>>)

\* a plan, which names tools in its steps only
PlanOnly == Obj(FALSE, JNull, FALSE, EmptyArgs, << "read_file", "write_file" >>)

\* the outputs the classification is run on: prose, fences and stray braces
\* in any order around a tool request, a plan and an object that is neither
MaxTextLen == 5

ParserTokens ==
    { Tok("P"), Tok("FO"), Tok("FC"), Tok("LB"), Tok("RB"),
      ObjTok(ReadNotes), ObjTok(PlanOnly), ObjTok(NullObj) }

\* the texts of up to n tokens
ParserTexts(n) == SeqsUpTo(ParserTokens, n)

\* the text of the token contains '{'
HasOpen(tok) == tok.t \in {"LB", "OBJ"}

\* the text of the token contains '}'
HasClose(tok) == tok.t \in {"RB", "OBJ"}

\* 'tool_name' in text: the objects that name a tool, at the top level or
\* in the steps of a plan
MentionsToolName(text) ==
    \E i \in 1..Len(text) :
        text[i].t = "OBJ" /\ (text[i].obj.has_tool_name \/ text[i].obj.has_plan)

\* json.loads: the text decodes when it is the text of exactly one object
JsonLoads(text) ==
    IF Len(text) = 1 /\ text[1].t = "OBJ"
    THEN [ok |-> TRUE, data |-> text[1].obj]
    ELSE [ok |-> FALSE, data |-> NullObj]

IsFenceOpen(tok) == tok.t = "FO"

\* both '```json' and '```' contain '```'
IsFence(tok) == tok.t \in {"FO", "FC"}

\* the least index in S, none when S is empty
MinOr(S, none) == IF S = {} THEN none ELSE CHOOSE i \in S : \A j \in S : i <= j

MaxOr(S, none) == IF S = {} THEN none ELSE CHOOSE i \in S : \A j \in S : j <= i

\* the first '```json' of the text, Len + 1 when there is none
FirstFenceOpen(text) ==
    MinOr({ i \in 1..Len(text) : IsFenceOpen(text[i]) }, Len(text) + 1)

\* the first '```' after position from, Len + 1 when there is none
NextFence(text, from) ==
    MinOr({ i \in (from + 1)..Len(text) : IsFence(text[i]) }, Len(text) + 1)

\* response.find('{'), Len + 1 when there is none
FindOpenBrace(text) ==
    MinOr({ i \in 1..Len(text) : HasOpen(text[i]) }, Len(text) + 1)

\* response.rfind('}'), 0 when there is none
RfindCloseBrace(text) ==
    MaxOr({ i \in 1..Len(text) : HasClose(text[i]) }, 0)

\* a parsed request, or None
NoRequest == [found |-> FALSE, data |-> NullObj]

Request(data) == [found |-> TRUE, data |-> data]

\* response.split('```json')[1].split('```')[0]
FencedPart(text) ==
    SubSeq(text, FirstFenceOpen(text) + 1, NextFence(text, FirstFenceOpen(text)) - 1)

\* response[response.find('{'):response.rfind('}')+1]
BracePart(text) ==
    SubSeq(text, FindOpenBrace(text), RfindCloseBrace(text))

\* a parser that takes any ```json fence for a request
ParseTrustsFence(text) ==
    IF \E i \in 1..Len(text) : IsFenceOpen(text[i]) THEN Request(ReadNotes) ELSE NoRequest

_parse_tool_request(text) ==
    LET fenced == JsonLoads(FencedPart(text))
        braced == JsonLoads(BracePart(text))
    IN  IF (\E i \in 1..Len(text) : IsFenceOpen(text[i]))
           /\ fenced.ok /\ fenced.data.has_tool_name
        THEN Request(fenced.data)
        ELSE IF (\E i \in 1..Len(text) : HasOpen(text[i]))
                /\ (\E i \in 1..Len(text) : HasClose(text[i]))
                /\ braced.ok /\ braced.data.has_tool_name
        THEN Request(braced.data)
        ELSE NoRequest

\* ChatSession.run, lines 345-363: the direct decoding of the whole output,
\* then the parser
ClassifyResponse(text) ==
    LET direct == JsonLoads(text)
    IN  IF Len(text) > 0 /\ HasOpen(text[1]) /\ MentionsToolName(text) /\ direct.ok
        THEN Request(direct.data)
        ELSE _parse_tool_request(text)

(***************************************************************************)
(* The chat session.                                                       *)
(***************************************************************************)
VARIABLES
    pc,                 \* where ChatSession.run stands
    messages,           \* self.messages: the conversation history
    current_dir,        \* self.current_dir
    session_memory_dir, \* self.session_memory['current_dir']
    system_prompt_dir,  \* the directory written into self.system_prompt
    os_cwd,             \* the working directory of the process (os.getcwd())
    home,               \* os.path.expanduser("~")
    text_bound,         \* whether the name Text, local to run, is bound
    tool_request,       \* the request waiting for confirmation or running
    response,           \* the last answer read by prompt_for_confirmation
    console,            \* what the loop printed last
    ended_by,           \* why run returned
    line_start,         \* Len(messages) when the current line was entered
    line_calls,         \* the tools executed for the current line, in order
    line_completions,   \* the completions requested for the current line
    line_output,        \* what the model's output for the current line was
    line_plan,          \* the steps of the plan that output proposed
    user_input,         \* the line the loop read last
    llm_response        \* a completion taken from outside, waiting to be classified

sessionVars ==
    << pc, messages, current_dir, session_memory_dir, system_prompt_dir, os_cwd,
       home, text_bound, tool_request, response, console, ended_by,
       line_start, line_calls, line_completions, line_output, line_plan, user_input >>

dirVars == << current_dir, session_memory_dir, system_prompt_dir, os_cwd >>

lineVars == << line_start, line_calls, line_completions, line_output, line_plan, user_input >>

parserVars == << llm_response >>

Turn(role, kind, tool, result) ==
    [role |-> role, kind |-> kind, tool |-> tool, result |-> result]

NoPending == [tool_name |-> "", arguments |-> EmptyArgs, new_dir |-> PathArg("empty", <<>>)]

Pending(name, args, dir) == [tool_name |-> name, arguments |-> args, new_dir |-> dir]

\* a line as the loop reads it: "" for a blank line, "!" for a bare '!',
\* "/exit" for /exit and /quit, "!cd" for '!cd <target>', "!!cd" for
\* '!!cd <target>', "!cd" without a target for a bare '!cd', "!server" for
\* a command that does not end by itself, "!command" for every other line
\* that starts with '!',
\* "text" for the rest
Line(kind, target) == [kind |-> kind, target |-> target]

\* ChatSession.__init__
SessionInit ==
    /\ home \in HomeChoices
    /\ pc = "AwaitingUserInput"
    /\ messages = <<>>
    /\ current_dir = home
    /\ os_cwd = Realpath(home)
    /\ session_memory_dir = home
    /\ system_prompt_dir = home
    /\ text_bound = FALSE
    /\ tool_request = NoPending
    /\ response = ""
    /\ console = "welcome"
    /\ ended_by = "none"
    /\ user_input = Line("", PathArg("empty", <<>>))
    /\ line_start = 0
    /\ line_calls = <<>>
    /\ line_completions = 0
    /\ line_output = "none"
    /\ line_plan = <<>>

\* a lookup that answers with the first tool of the catalog
GetFirstTool(reg, name) ==
    IF name.type = "list" THEN [raises |-> TRUE, found |-> FALSE, index |-> 0]
    ELSE [raises |-> FALSE, found |-> reg # <<>>, index |-> IF reg # <<>> THEN 1 ELSE 0]

\* ToolRegistry.get_tool: the tool of that name, found FALSE for None and
\* for every other name; a name that cannot be a dict key raises TypeError
get_tool(reg, name) ==
    IF name.type = "list" THEN [raises |-> TRUE, found |-> FALSE, index |-> 0]
    ELSE IF name.type = "str" /\ IndexOfName(reg, name.s) # 0
    THEN [raises |-> FALSE, found |-> TRUE, index |-> IndexOfName(reg, name.s)]
    ELSE [raises |-> FALSE, found |-> FALSE, index |-> 0]

\* _update_current_dir, lines 198-204: the directory new_dir stands for
ResolveDir(cur, arg) ==
    IF arg.kind \in {"tilde", "empty"} THEN home
    ELSE IF arg.kind = "abs" THEN arg.parts
    ELSE Abspath(cur, arg.parts)

\* _update_current_dir returns True: the argument is a string and names an
\* existing directory (anything else raises inside, or fails isdir)
UpdateSucceeds(cur, arg) ==
    arg.kind # "nonstring" /\ ResolveDir(cur, arg) \in Dirs

\* a directory update that forgets to regenerate the system prompt
UpdateWithoutPrompt(arg) ==
    IF UpdateSucceeds(current_dir, arg)
    THEN /\ os_cwd' = Realpath(ResolveDir(current_dir, arg))
         /\ current_dir' = os_cwd'
         /\ session_memory_dir' = current_dir'
         /\ UNCHANGED system_prompt_dir
    ELSE UNCHANGED dirVars

\* _update_current_dir, lines 210-217, as a relation on the directory state
\* (session_memory and the system prompt follow current_dir); a failed
\* update changes nothing
_update_current_dir(arg) ==
    IF UpdateSucceeds(current_dir, arg)
    THEN /\ os_cwd' = Realpath(ResolveDir(current_dir, arg))
         /\ current_dir' = os_cwd'
         /\ session_memory_dir' = current_dir'
         /\ system_prompt_dir' = current_dir'
    ELSE UNCHANGED dirVars

(***************************************************************************)
(* ChatSession.run, one action per step between two points where the loop  *)
(* waits (for a line, a completion, a confirmation, a tool, a command).    *)
(***************************************************************************)
\* the lines a user may type after '!cd '
CdTargets == { a \in PathArgs : a.kind \in {"tilde", "abs", "rel"} }

StartLine(line) ==
    /\ user_input' = line
    /\ line_start' = Len(messages)
    /\ line_calls' = <<>>
    /\ line_completions' = 0
    /\ line_output' = "none"
    /\ line_plan' = <<>>

\* lines 291-293 and 301-304: an empty line, or a bare '!'
EmptyLine(kind) ==
    /\ pc = "AwaitingUserInput"
    /\ StartLine(Line(kind, PathArg("empty", <<>>)))
    /\ UNCHANGED << pc, messages, dirVars, home, text_bound, tool_request,
                    response, console, ended_by >>

\* an exit token that is sent to the model like any other line
ExitLineAsText ==
    /\ pc = "AwaitingUserInput"
    /\ Len(messages) < MaxHistory
    /\ StartLine(Line("/exit", PathArg("empty", <<>>)))
    /\ messages' = Append(messages, Turn("user", "input", "", ""))
    /\ pc' = "Thinking"
    /\ UNCHANGED << dirVars, home, text_bound, tool_request, response, console, ended_by >>

\* lines 295-298: /exit or /quit
ExitLine ==
    /\ pc = "AwaitingUserInput"
    /\ StartLine(Line("/exit", PathArg("empty", <<>>)))
    /\ pc' = "Ended"
    /\ ended_by' = "quit"
    /\ console' = "goodbye"
    /\ UNCHANGED << messages, dirVars, home, text_bound, tool_request, response >>

\* lines 306-322: '!cd <target>'
CdLine(target) ==
    /\ pc = "AwaitingUserInput"
    /\ StartLine(Line("!cd", target))
    /\ _update_current_dir(target)
    /\ console' = IF UpdateSucceeds(current_dir, target)
                  THEN "changed_directory" ELSE "directory_not_found"
    /\ UNCHANGED << pc, messages, home, text_bound, tool_request, response, ended_by >>

\* lines 324-340 with _execute_shell_command, lines 230-239: '!!cd <target>'
\* reaches the cd branch of _execute_shell_command, and then the session
\* takes over the working directory of the process
NestedCdLine(target) ==
    /\ pc = "AwaitingUserInput"
    /\ StartLine(Line("!!cd", target))
    /\ IF UpdateSucceeds(current_dir, target)
       THEN _update_current_dir(target)
       ELSE /\ current_dir' = os_cwd
            /\ session_memory_dir' = IF os_cwd # current_dir THEN os_cwd ELSE session_memory_dir
            /\ system_prompt_dir' = IF os_cwd # current_dir THEN os_cwd ELSE system_prompt_dir
            /\ UNCHANGED os_cwd
    /\ console' = "shell_output"
    /\ UNCHANGED << pc, messages, home, text_bound, tool_request, response, ended_by >>

\* the '!' lines that reach subprocess.run: a command that ends, a bare
\* '!cd' (it does not start with 'cd ', lines 307 and 235), and a command
\* that does not end by itself
ShellLines ==
    { Line(kind, PathArg("empty", <<>>)) : kind \in {"!command", "!cd", "!server"} }

\* lines 324-326: any other '!' line starts a subprocess in current_dir
ShellLine(line) ==
    /\ pc = "AwaitingUserInput"
    /\ StartLine(line)
    /\ pc' = "RunningShell"
    /\ console' = "executing"
    /\ UNCHANGED << messages, dirVars, home, text_bound, tool_request, response, ended_by >>

\* a loop that keeps the output of the command as a turn of the history
ShellOutputKept ==
    /\ pc = "RunningShell"
    /\ Len(messages) < MaxHistory
    /\ messages' = Append(messages, Turn("user", "tool_message", "shell", "ok"))
    /\ pc' = "AwaitingUserInput"
    /\ console' = "shell_output"
    /\ UNCHANGED << dirVars, home, text_bound, tool_request, response, ended_by, lineVars >>

\* lines 242-250 and 328-340: subprocess.run, called without a timeout,
\* returns when the command has ended; the session takes over the working
\* directory of the process
ShellReturns ==
    /\ pc = "RunningShell"
    /\ user_input.kind # "!server"
    /\ IF os_cwd # current_dir
       THEN /\ current_dir' = os_cwd
            /\ session_memory_dir' = os_cwd
            /\ system_prompt_dir' = os_cwd
       ELSE UNCHANGED << current_dir, session_memory_dir, system_prompt_dir >>
    /\ pc' = "AwaitingUserInput"
    /\ console' = "shell_output"
    /\ UNCHANGED << messages, os_cwd, home, text_bound, tool_request, response,
                    ended_by, lineVars >>

\* lines 342-343: any other line is appended to history and a completion
\* is requested
TextLine ==
    /\ pc = "AwaitingUserInput"
    /\ Len(messages) < MaxHistory
    /\ user_input' = Line("text", PathArg("empty", <<>>))
    /\ line_start' = Len(messages)
    /\ line_calls' = <<>>
    /\ line_completions' = 1
    /\ line_output' = "none"
    /\ line_plan' = <<>>
    /\ messages' = Append(messages, Turn("user", "input", "", ""))
    /\ pc' = "Thinking"
    /\ UNCHANGED << dirVars, home, text_bound, tool_request, response, console, ended_by >>

\* the steps of the plan the output carries, whole, in its fence or between
\* its braces; none when it carries no plan
ProposedPlan(text) ==
    IF JsonLoads(text).ok /\ JsonLoads(text).data.has_plan
    THEN JsonLoads(text).data.plan
    ELSE IF JsonLoads(FencedPart(text)).ok /\ JsonLoads(FencedPart(text)).data.has_plan
    THEN JsonLoads(FencedPart(text)).data.plan
    ELSE IF JsonLoads(BracePart(text)).ok /\ JsonLoads(BracePart(text)).data.has_plan
    THEN JsonLoads(BracePart(text)).data.plan
    ELSE <<>>

\* lines 367-368: tool_request.get('tool_name'), tool_request.get('arguments', {})
RequestedName(req) == IF req.data.has_tool_name THEN req.data.tool_name ELSE JNull

RequestedArguments(req) == IF req.data.has_arguments THEN req.data.arguments ELSE EmptyArgs

\* lines 379-381: arguments.get('directory_path', ''), home when that is empty
RequestedDirectory(arguments) ==
    IF "directory_path" \in arguments.keys /\ arguments.directory_path.kind # "empty"
    THEN arguments.directory_path
    ELSE PathArg("abs", home)

\* line 346: the request of one iteration does not outlive it
ClearRequest ==
    /\ tool_request' = NoPending
    /\ response' = ""

\* a loop that shows the plain answer and does not keep it
AnswerNotKept ==
    /\ console' = "answer"
    /\ pc' = "AwaitingUserInput"
    /\ UNCHANGED << messages, dirVars, home, text_bound, tool_request, response, ended_by >>

\* lines 448-451: the output is a plain answer
PlainAnswer ==
    /\ messages' = Append(messages, Turn("assistant", "answer", "", ""))
    /\ console' = "answer"
    /\ pc' = "AwaitingUserInput"
    /\ UNCHANGED << dirVars, home, text_bound, tool_request, response, ended_by >>

\* an exception that nothing in run catches leaves the loop
Propagates(why) ==
    /\ pc' = "Ended"
    /\ ended_by' = why
    /\ UNCHANGED << messages, dirVars, home, text_bound, tool_request, response, console >>

\* a loop that takes the line of an unknown tool back out of the history
UnknownToolForgetsLine ==
    /\ console' = "unknown_tool"
    /\ pc' = "AwaitingUserInput"
    /\ messages' = SubSeq(messages, 1, Len(messages) - 1)
    /\ UNCHANGED << dirVars, home, text_bound, tool_request, response, ended_by >>

\* lines 373-375: the catalog has no such tool
UnknownTool ==
    /\ console' = "unknown_tool"
    /\ pc' = "AwaitingUserInput"
    /\ UNCHANGED << messages, dirVars, home, text_bound, tool_request, response, ended_by >>

\* lines 384-391 and 410-416: the request is shown and the confirmation asked
AskConfirmation(name, arguments, dir) ==
    /\ tool_request' = Pending(name, arguments, dir)
    /\ response' = ""
    /\ console' = "confirmation_required"
    /\ pc' = "Confirming"
    /\ UNCHANGED << messages, dirVars, home, text_bound, ended_by >>

\* lines 343-416: the completion has arrived; it is classified and, for a
\* tool of the catalog, the confirmation is asked.  arguments.get (line
\* 379) and arguments.items (display_tool_request, called at line 410)
\* raise AttributeError for arguments that are no mapping, outside any try
LLMResponds(text) ==
    /\ pc = "Thinking"
    /\ LET req == ClassifyResponse(text)
           tool == get_tool(tool_registry, RequestedName(req))
           arguments == RequestedArguments(req)
       IN  /\ line_output' = IF ProposedPlan(text) # <<>> THEN "plan"
                             ELSE IF req.found THEN "tool_request" ELSE "plain"
           /\ line_plan' = ProposedPlan(text)
           /\ IF ~req.found THEN PlainAnswer
              ELSE IF tool.raises THEN Propagates("tool_name_error")
              ELSE IF ~tool.found THEN UnknownTool
              ELSE IF arguments.type # "dict" THEN Propagates("arguments_error")
              ELSE IF RequestedName(req).s = "change_directory"
              THEN AskConfirmation("change_directory", arguments,
                                   RequestedDirectory(arguments))
              ELSE AskConfirmation(RequestedName(req).s, arguments,
                                   PathArg("empty", <<>>))
    /\ UNCHANGED << user_input, line_start, line_calls, line_completions >>

\* _get_llm_response raises (OllamaError) while the first completion of a
\* line is streamed: nothing in run catches it
StreamFails ==
    /\ pc = "Thinking"
    /\ Propagates("gateway_error")
    /\ UNCHANGED lineVars

\* what the user may type at the confirmation prompt, lowered and stripped
Answers == {"y", "yes", "n", "no", "maybe"}

\* a prompt that takes every answer but n and no for a yes
ConfirmedUnlessNo(answer) ==
    IF answer \in {"n", "no"} THEN "no" ELSE "yes"

\* prompt_for_confirmation: True for y and yes, False for n and no, and the
\* question again for anything else
Confirmed(answer) ==
    IF answer \in {"y", "yes"} THEN "yes"
    ELSE IF answer \in {"n", "no"} THEN "no"
    ELSE "again"

\* lines 386-395 and 412-420: one answer at the confirmation prompt
AnswerConfirmation(answer) ==
    /\ pc = "Confirming"
    /\ response' = IF Confirmed(answer) = "no" THEN "" ELSE answer
    /\ IF Confirmed(answer) = "yes"
       THEN /\ pc' = "Executing"
            /\ console' = "confirmed"
            /\ UNCHANGED tool_request
       ELSE IF Confirmed(answer) = "no"
       THEN /\ pc' = "AwaitingUserInput"
            /\ console' = "cancelled"
            /\ tool_request' = NoPending
       ELSE /\ pc' = "Confirming"
            /\ console' = "please_enter_y_or_n"
            /\ UNCHANGED tool_request
    /\ UNCHANGED << messages, dirVars, home, text_bound, ended_by, lineVars >>

\* tool.func(**arguments) binds: arguments is a mapping whose keys are
\* parameters of the function and cover the required ones
ArgumentsFit(tool, arguments) ==
    /\ arguments.type = "dict"
    /\ tool.required \subseteq arguments.keys
    /\ arguments.keys \subseteq (tool.required \cup tool.optional)

\* the texts a tool returns: a result, or a message beginning with 'Error:'
ToolResults == {"ok", "Error:"}

\* lines 443-447: an exception of the tool call, or of anything after it in
\* the try block, is printed; the import at line 444 binds Text
ToolRaises ==
    /\ text_bound' = TRUE
    /\ console' = "error_executing"
    /\ pc' = "AwaitingUserInput"
    /\ ClearRequest
    /\ UNCHANGED << messages, dirVars, home, ended_by >>

\* a loop that enters the result of a tool as a turn of the assistant
ToolResultAsAssistant(name, result) ==
    /\ messages' = Append(messages, Turn("assistant", "tool_message", name, result))
    /\ console' = "tool_result"
    /\ pc' = "FinalThinking"
    /\ UNCHANGED << dirVars, home, text_bound, tool_request, response, ended_by >>

\* lines 427-439: the result is shown, appended to history as a user turn,
\* and the final completion is requested
ToolReturns(name, result) ==
    /\ messages' = Append(messages, Turn("user", "tool_message", name, result))
    /\ console' = "tool_result"
    /\ pc' = "FinalThinking"
    /\ UNCHANGED << dirVars, home, text_bound, tool_request, response, ended_by >>

\* lines 422-447: the confirmed tool is called
ExecuteTool ==
    /\ pc = "Executing"
    /\ tool_request.tool_name # "change_directory"
    /\ line_calls' = Append(line_calls, tool_request.tool_name)
    /\ LET tool == tool_registry[IndexOfName(tool_registry, tool_request.tool_name)]
       IN  IF ArgumentsFit(tool, tool_request.arguments)
           THEN /\ \E result \in ToolResults : ToolReturns(tool.name, result)
                /\ line_completions' = line_completions + 1
           ELSE /\ ToolRaises
                /\ UNCHANGED line_completions
    /\ UNCHANGED << user_input, line_start, line_output, line_plan >>

\* lines 397-406: the confirmed directory change.  A failed change prints
\* with Text (line 402), which is a local name of run bound only by the
\* import at line 444: unbound, the print raises, the handler at line 404
\* raises again at line 406, and that exception leaves run
ExecuteDirectoryChange ==
    /\ pc = "Executing"
    /\ tool_request.tool_name = "change_directory"
    /\ IF UpdateSucceeds(current_dir, tool_request.new_dir)
       THEN /\ _update_current_dir(tool_request.new_dir)
            /\ line_calls' = Append(line_calls, "change_directory")
            /\ console' = "changed_directory"
            /\ pc' = "AwaitingUserInput"
            /\ ClearRequest
            /\ UNCHANGED << messages, home, text_bound, ended_by >>
       ELSE /\ line_calls' = line_calls
            /\ IF text_bound
               THEN /\ console' = "failed_to_change_directory"
                    /\ pc' = "AwaitingUserInput"
                    /\ ClearRequest
                    /\ UNCHANGED << messages, dirVars, home, text_bound, ended_by >>
               ELSE Propagates("directory_change_error")
    /\ UNCHANGED << user_input, line_start, line_completions, line_output, line_plan >>

\* a loop that takes a final completion that holds a request for a request,
\* and runs the tool once more
FinalResponseInterpreted(text) ==
    /\ pc = "FinalThinking"
    /\ IF ClassifyResponse(text).found /\ Len(line_calls) < 2
       THEN /\ pc' = "Executing"
            /\ console' = "confirmed"
            /\ UNCHANGED << messages, tool_request, response >>
       ELSE /\ messages' = Append(messages, Turn("assistant", "answer", "", ""))
            /\ console' = "answer"
            /\ pc' = "AwaitingUserInput"
            /\ ClearRequest
    /\ UNCHANGED << dirVars, home, text_bound, ended_by, lineVars >>

\* lines 439-441: the final completion is appended as an assistant turn,
\* whatever it holds
FinalResponse(text) ==
    /\ pc = "FinalThinking"
    /\ messages' = Append(messages,
                          Turn("assistant",
                               IF ClassifyResponse(text).found THEN "tool_call_text" ELSE "answer",
                               "", ""))
    /\ console' = "answer"
    /\ pc' = "AwaitingUserInput"
    /\ ClearRequest
    /\ UNCHANGED << dirVars, home, text_bound, ended_by, lineVars >>

\* _get_llm_response raises while the final completion is streamed: this
\* call is inside the try block of line 423
FinalStreamFails ==
    /\ pc = "FinalThinking"
    /\ ToolRaises
    /\ UNCHANGED lineVars

\* an interrupt that ends the loop without the farewell
InterruptSilently ==
    /\ pc # "Ended"
    /\ pc' = "Ended"
    /\ ended_by' = "interrupt"
    /\ UNCHANGED << messages, dirVars, home, text_bound, tool_request, response,
                    console, lineVars >>

\* lines 457-458: KeyboardInterrupt or CancelledError, wherever the loop waits
Interrupt ==
    /\ pc # "Ended"
    /\ pc' = "Ended"
    /\ ended_by' = "interrupt"
    /\ console' = "goodbye"
    /\ UNCHANGED << messages, dirVars, home, text_bound, tool_request, response, lineVars >>

(***************************************************************************)
(* The background process supervisor.  `processes` is the table of the     *)
(* ProcessManager (its keys); `managed` holds the ManagedProcess objects,  *)
(* which their reader threads keep using after the table dropped them.     *)
(***************************************************************************)
\* background processes the model lets the supervisor start
MaxProcs == 1
\* lines the background processes print, all together
MaxLines == 2

\* process ids the operating system hands out, and one it never does
Pids == 1..(MaxProcs + 1)

VARIABLES
    processes,      \* ProcessManager.processes: the ids the table holds
    managed,        \* pid -> the ManagedProcess object made for it
    os_procs,       \* pid -> the child process as the operating system has it
    reader,         \* pid -> where the _reader_thread of the process stands
    queue_mutex,    \* pid -> who holds the mutex of the process's Queue
    drained,        \* pid -> the lines get_output has returned so far
    pm_pc,          \* what the main thread is doing inside the supervisor
    pm_result       \* what the last supervisor call returned

pmVars == << processes, managed, os_procs, reader, queue_mutex, drained, pm_pc, pm_result >>

\* the main thread inside a call: the call, its id, the lines read_output
\* has collected and the queue as it was when the call was made
At(op, pid, lines, at_call) ==
    [op |-> op, pid |-> pid, lines |-> lines, at_call |-> at_call]

Idle == At("idle", 0, <<>>, <<>>)

Result(op, pid, ok, lines, pids) ==
    [op |-> op, pid |-> pid, ok |-> ok, lines |-> lines, pids |-> pids]

\* ProcessManager.__new__ for the first time: an empty table
SupervisorInit ==
    /\ processes = {}
    /\ managed = << >>
    /\ os_procs = << >>
    /\ reader = << >>
    /\ queue_mutex = << >>
    /\ drained = << >>
    /\ pm_pc = Idle
    /\ pm_result = Result("none", 0, FALSE, <<>>, {})

\* ManagedProcess.__init__ and start: the object of a process just spawned
ManagedProcess == [is_running |-> TRUE, output_queue |-> <<>>]

\* subprocess.Popen: a child that has printed nothing yet
Popen ==
    [alive |-> TRUE, stdout_open |-> TRUE, printed |-> 0, pipe |-> <<>>,
     terminate_sent |-> FALSE, kill_sent |-> FALSE]

\* f with the value v at the new point x
Extend(f, x, v) == [y \in (DOMAIN f) \cup {x} |-> IF y = x THEN v ELSE f[y]]

\* start_process: the child is spawned, its reader thread started and the
\* object entered in the table under the pid, the next one the operating
\* system has to give; the call does not wait for the child
start_process(pid) ==
    /\ pm_pc = Idle
    /\ pid \in 1..MaxProcs
    /\ pid = Cardinality(DOMAIN os_procs) + 1
    /\ os_procs' = Extend(os_procs, pid, Popen)
    /\ managed' = Extend(managed, pid, ManagedProcess)
    /\ reader' = Extend(reader, pid, "reading")
    /\ queue_mutex' = Extend(queue_mutex, pid, "free")
    /\ drained' = Extend(drained, pid, <<>>)
    /\ processes' = processes \cup {pid}
    /\ pm_result' = Result("start", pid, TRUE, <<>>, {})
    /\ UNCHANGED pm_pc

\* start_process when subprocess.Popen raises (line 40): the exception
\* leaves start_process before line 90
StartFails ==
    /\ pm_pc = Idle
    /\ pm_result' = Result("start", 0, FALSE, <<>>, {})
    /\ UNCHANGED << processes, managed, os_procs, reader, queue_mutex, drained, pm_pc >>

\* the lines the processes of S have printed
RECURSIVE Printed(_)
Printed(S) ==
    IF S = {} THEN 0
    ELSE LET pid == CHOOSE x \in S : TRUE
         IN  os_procs[pid].printed + Printed(S \ {pid})

\* the child prints a line
ProcessPrints(pid) ==
    /\ pid \in DOMAIN os_procs
    /\ os_procs[pid].alive /\ os_procs[pid].stdout_open
    /\ Printed(DOMAIN os_procs) < MaxLines
    /\ os_procs' = [os_procs EXCEPT ![pid].printed = @ + 1,
                                    ![pid].pipe = Append(@, os_procs[pid].printed + 1)]
    /\ UNCHANGED << processes, managed, reader, queue_mutex, drained, pm_pc, pm_result >>

\* the child closes its output and goes on running
ProcessClosesStdout(pid) ==
    /\ pid \in DOMAIN os_procs
    /\ os_procs[pid].alive /\ os_procs[pid].stdout_open
    /\ os_procs' = [os_procs EXCEPT ![pid].stdout_open = FALSE]
    /\ UNCHANGED << processes, managed, reader, queue_mutex, drained, pm_pc, pm_result >>

\* the child exits, by itself or on a termination request
ProcessExits(pid) ==
    /\ pid \in DOMAIN os_procs
    /\ os_procs[pid].alive
    /\ os_procs' = [os_procs EXCEPT ![pid].alive = FALSE, ![pid].stdout_open = FALSE]
    /\ UNCHANGED << processes, managed, reader, queue_mutex, drained, pm_pc, pm_result >>

\* a Queue whose operations take no mutex
AcquireUnguarded(pid, who) ==
    queue_mutex' = [queue_mutex EXCEPT ![pid] = who]

\* the mutex of a Queue is taken only when nobody holds it
Acquire(pid, who) ==
    /\ queue_mutex[pid] = "free"
    /\ queue_mutex' = [queue_mutex EXCEPT ![pid] = who]

\* _reader_thread, lines 29-30: readline has a line and output_queue.put
\* enters the queue
ReaderLocks(pid) ==
    /\ pid \in DOMAIN reader
    /\ reader[pid] = "reading"
    /\ os_procs[pid].pipe # <<>>
    /\ Acquire(pid, "reader")
    /\ reader' = [reader EXCEPT ![pid] = "putting"]
    /\ UNCHANGED << processes, managed, os_procs, drained, pm_pc, pm_result >>

\* a queue that hands out its newest line first
PutInFront(queue, line) == << line >> \o queue

\* a put that replaces what the queue holds
PutOverwrites(queue, line) == << line >>

\* Queue.put: the line goes to the end of the queue
Put(queue, line) == Append(queue, line)

\* _reader_thread, line 30: the line is queued and the queue left
ReaderQueuesLine(pid) ==
    /\ pid \in DOMAIN reader
    /\ reader[pid] = "putting"
    /\ managed' = [managed EXCEPT ![pid].output_queue = Put(@, Head(os_procs[pid].pipe))]
    /\ os_procs' = [os_procs EXCEPT ![pid].pipe = Tail(@)]
    /\ queue_mutex' = [queue_mutex EXCEPT ![pid] = "free"]
    /\ reader' = [reader EXCEPT ![pid] = "reading"]
    /\ UNCHANGED << processes, drained, pm_pc, pm_result >>

\* a reader that takes the entry out of the table when the stream ends
ReaderEndsReaps(pid) ==
    /\ pid \in DOMAIN reader
    /\ reader[pid] = "reading"
    /\ os_procs[pid].pipe = <<>>
    /\ ~os_procs[pid].stdout_open
    /\ managed' = [managed EXCEPT ![pid].is_running = FALSE]
    /\ reader' = [reader EXCEPT ![pid] = "done"]
    /\ processes' = processes \ {pid}
    /\ UNCHANGED << os_procs, queue_mutex, drained, pm_pc, pm_result >>

\* a reader that ends without touching the flag
ReaderEndsSilently(pid) ==
    /\ pid \in DOMAIN reader
    /\ reader[pid] = "reading"
    /\ os_procs[pid].pipe = <<>>
    /\ ~os_procs[pid].stdout_open
    /\ reader' = [reader EXCEPT ![pid] = "done"]
    /\ UNCHANGED << processes, managed, os_procs, queue_mutex, drained, pm_pc, pm_result >>

\* _reader_thread, lines 31-32: at the end of the stream the flag is cleared
ReaderEnds(pid) ==
    /\ pid \in DOMAIN reader
    /\ reader[pid] = "reading"
    /\ os_procs[pid].pipe = <<>>
    /\ ~os_procs[pid].stdout_open
    /\ managed' = [managed EXCEPT ![pid].is_running = FALSE]
    /\ reader' = [reader EXCEPT ![pid] = "done"]
    /\ UNCHANGED << processes, os_procs, queue_mutex, drained, pm_pc, pm_result >>

\* a stop that reports success for an id the table does not hold
StopUnknownReturnsTrue(pid) ==
    /\ pm_result' = Result("stop", pid, TRUE, <<>>, {})
    /\ UNCHANGED << processes, managed, os_procs, reader, queue_mutex, drained, pm_pc >>

\* stop_process, lines 96 and 100, for an id the table does not hold
StopUnknown(pid) ==
    /\ pm_result' = Result("stop", pid, FALSE, <<>>, {})
    /\ UNCHANGED << processes, managed, os_procs, reader, queue_mutex, drained, pm_pc >>

\* stop_process and ManagedProcess.stop, lines 57-58: a running process is
\* asked to terminate and waited for; one whose flag is cleared is not
StopBegins(pid) ==
    /\ IF managed[pid].is_running
       THEN os_procs' = [os_procs EXCEPT ![pid].terminate_sent = TRUE]
       ELSE UNCHANGED os_procs
    /\ pm_pc' = At(IF managed[pid].is_running THEN "waiting" ELSE "removing", pid, <<>>, <<>>)
    /\ UNCHANGED << processes, managed, reader, queue_mutex, drained, pm_result >>

\* a stop that leaves the entry in the table
KeepEntry(table, pid) == table

\* stop_process, line 98: del self.processes[pid]
DeleteEntry(table, pid) == table \ {pid}

\* ManagedProcess.stop, lines 59-63, and stop_process, lines 98-99: the wait
\* is over; a process still alive is killed, the flag cleared, the entry
\* deleted
StopEnds(pid) ==
    /\ pm_pc.op \in {"waiting", "removing"}
    /\ pm_pc.pid = pid
    /\ IF pm_pc.op = "waiting"
       THEN /\ os_procs' = IF os_procs[pid].alive
                           THEN [os_procs EXCEPT ![pid].kill_sent = TRUE,
                                                 ![pid].alive = FALSE,
                                                 ![pid].stdout_open = FALSE]
                           ELSE os_procs
            /\ managed' = [managed EXCEPT ![pid].is_running = FALSE]
       ELSE UNCHANGED << os_procs, managed >>
    /\ processes' = DeleteEntry(processes, pid)
    /\ pm_pc' = Idle
    /\ pm_result' = Result("stop", pid, TRUE, <<>>, {})
    /\ UNCHANGED << reader, queue_mutex, drained >>

\* stop_process on any id
stop_process(pid) ==
    /\ pm_pc = Idle
    /\ IF pid \in processes THEN StopBegins(pid) ELSE StopUnknown(pid)

\* get_output, lines 104-108: read_output is entered for an id of the
\* table; None for an id the table does not hold
get_output(pid) ==
    /\ pm_pc = Idle
    /\ IF pid \in processes
       THEN /\ pm_pc' = At("reading", pid, <<>>, managed[pid].output_queue)
            /\ UNCHANGED pm_result
       ELSE /\ pm_result' = Result("get_output", pid, FALSE, <<>>, {})
            /\ UNCHANGED pm_pc
    /\ UNCHANGED << processes, managed, os_procs, reader, queue_mutex, drained >>

\* read_output, lines 68-70: output_queue.empty and get_nowait enter the
\* queue
ReadLocks(pid) ==
    /\ pm_pc.op = "reading"
    /\ pm_pc.pid = pid
    /\ Acquire(pid, "main")
    /\ pm_pc' = [pm_pc EXCEPT !.op = "in_queue"]
    /\ UNCHANGED << processes, managed, os_procs, reader, drained, pm_result >>

\* a read that drops the line behind the one it takes
ReadRemovesTwo(queue) == IF Len(queue) > 1 THEN Tail(Tail(queue)) ELSE Tail(queue)

\* Queue.get_nowait: the first line leaves the queue
ReadRemoves(queue) == Tail(queue)

\* read_output, lines 68-73: a line of the queue is taken and the loop goes
\* on, or the queue is found empty and the lines collected are returned
ReadUnlocks(pid) ==
    /\ pm_pc.op = "in_queue"
    /\ pm_pc.pid = pid
    /\ queue_mutex' = [queue_mutex EXCEPT ![pid] = "free"]
    /\ IF managed[pid].output_queue # <<>>
       THEN /\ pm_pc' = [pm_pc EXCEPT !.op = "reading",
                                      !.lines = Append(@, Head(managed[pid].output_queue))]
            /\ managed' = [managed EXCEPT ![pid].output_queue = ReadRemoves(@)]
            /\ UNCHANGED << drained, pm_result >>
       ELSE /\ pm_pc' = Idle
            /\ pm_result' = Result("get_output", pid, TRUE, pm_pc.lines, {})
            /\ drained' = [drained EXCEPT ![pid] = @ \o pm_pc.lines]
            /\ UNCHANGED managed
    /\ UNCHANGED << processes, os_procs, reader >>

\* list_pids
list_pids ==
    /\ pm_pc = Idle
    /\ pm_result' = Result("list_pids", 0, TRUE, <<>>, processes)
    /\ UNCHANGED << processes, managed, os_procs, reader, queue_mutex, drained, pm_pc >>

(***************************************************************************)
(* The process tools of extended_tools: each call builds a ProcessManager  *)
(* and calls its methods, one after the other, in the main thread.         *)
(***************************************************************************)
\* the tool calls a behaviour makes at most
MaxToolCalls == 3

VARIABLES
    _instance,      \* ProcessManager._instance: "None" before the first construction
    tool_pc,        \* the tool function in progress and the method it calls next
    tool_log        \* what the tool functions returned so far, in order

toolVars == << _instance, tool_pc, tool_log >>

Call(fn, step, pid) == [fn |-> fn, step |-> step, pid |-> pid]

NoCall == Call("none", "idle", 0)

Returned(fn, pid, text) == [fn |-> fn, pid |-> pid, text |-> text]

\* the process before ProcessManager was built for the first time
ToolsInit ==
    /\ _instance = "None"
    /\ tool_pc = NoCall
    /\ tool_log = <<>>

\* a process whose ProcessManager exists and is used without the tools
SupervisorBuilt ==
    /\ _instance = "ProcessManager"
    /\ tool_pc = NoCall
    /\ tool_log = <<>>

\* a constructor that gives every caller a new instance with its own table
NewEveryTime(instance, table) == {}

\* ProcessManager.__new__: the table of the instance the construction
\* yields; a new, empty one only when there is no instance yet
__new__(instance, table) == IF instance = "None" THEN {} ELSE table

\* ProcessManager()
Construct ==
    /\ processes' = __new__(_instance, processes)
    /\ _instance' = "ProcessManager"

\* _start_process_func, line 44
StartToolBegins ==
    /\ tool_pc = NoCall
    /\ pm_pc = Idle
    /\ Len(tool_log) < MaxToolCalls
    /\ Construct
    /\ tool_pc' = Call("start_process", "start_process", 0)
    /\ UNCHANGED << managed, os_procs, reader, queue_mutex, drained, pm_pc, pm_result, tool_log >>

\* _start_process_func, lines 45-47: manager.start_process returns the pid
StartToolStarts(pid) ==
    /\ tool_pc = Call("start_process", "start_process", 0)
    /\ start_process(pid)
    /\ tool_pc' = Call("start_process", "get_output", pid)
    /\ UNCHANGED << _instance, tool_log >>

\* _start_process_func, line 45, when subprocess.Popen raises: the
\* exception leaves the tool function
StartToolFails ==
    /\ tool_pc = Call("start_process", "start_process", 0)
    /\ StartFails
    /\ tool_pc' = NoCall
    /\ tool_log' = Append(tool_log, Returned("start_process", 0, "raised"))
    /\ UNCHANGED _instance

\* _start_process_func, line 50: manager.get_output(pid, 2.0)
StartToolReads ==
    /\ tool_pc.fn = "start_process"
    /\ tool_pc.step = "get_output"
    /\ get_output(tool_pc.pid)
    /\ tool_pc' = [tool_pc EXCEPT !.step = "read_output"]
    /\ UNCHANGED << _instance, tool_log >>

\* _start_process_func, lines 52-58: the pid is returned in the message
StartToolReturns ==
    /\ tool_pc.fn = "start_process"
    /\ tool_pc.step = "read_output"
    /\ pm_pc = Idle
    /\ tool_log' = Append(tool_log, Returned("start_process", tool_pc.pid, "Successfully started"))
    /\ tool_pc' = NoCall
    /\ UNCHANGED << pmVars, _instance >>

\* _stop_process_func, line 62: ProcessManager()
StopToolBegins(pid) ==
    /\ tool_pc = NoCall
    /\ pm_pc = Idle
    /\ Len(tool_log) < MaxToolCalls
    /\ Construct
    /\ tool_pc' = Call("stop_process", "stop_process", pid)
    /\ UNCHANGED << managed, os_procs, reader, queue_mutex, drained, pm_pc, pm_result, tool_log >>

\* _stop_process_func, line 62: .stop_process(pid)
StopToolStops ==
    /\ tool_pc.fn = "stop_process"
    /\ tool_pc.step = "stop_process"
    /\ stop_process(tool_pc.pid)
    /\ tool_pc' = [tool_pc EXCEPT !.step = "stopping"]
    /\ UNCHANGED << _instance, tool_log >>

\* _stop_process_func, lines 62-64: the message for True and for False
StopToolReturns ==
    /\ tool_pc.fn = "stop_process"
    /\ tool_pc.step = "stopping"
    /\ pm_pc = Idle
    /\ tool_log' = Append(tool_log,
                          Returned("stop_process", tool_pc.pid,
                                   IF pm_result.ok THEN "Successfully stopped"
                                   ELSE "Error: not managed or already stopped"))
    /\ tool_pc' = NoCall
    /\ UNCHANGED << pmVars, _instance >>

(***************************************************************************)
(* The tool catalog as an object of its own: built from a definition list, *)
(* then extended with register, asked with get_tool and described with     *)
(* generate_prompt_string.  A text is the sequence of its pieces.          *)
(***************************************************************************)
\* the longest definition list a catalog is built from
MaxTools == 2

VARIABLES
    definitions,    \* the list ToolRegistry(tools=...) was built from
    _tools,         \* self._tools, in insertion order
    registered,     \* the tools register accepted, in order
    reg_result      \* what the last call on the catalog returned or raised

registryVars == << definitions, _tools, registered, reg_result >>

\* a second tool that calls itself read_file
read_file_again ==
    Tool("read_file", "Shows a file page by page.", {"path"}, {},
         << Arg("path", "string"), Arg("page", "integer") >>)

\* a tool without parameters
list_processes ==
    Tool("list_processes", "Lists all running processes, indicating which are managed by Alexia.",
         {}, {}, <<>>)

\* the tools catalogs are built from
RegistryTools == { read_file_tool, read_file_again, list_directory_tool, list_processes }

\* the values get_tool is called with
LookupNames ==
    { JStr(t.name) : t \in RegistryTools } \cup { JStr("no_such_tool"), JNull, JList }

\* the call, the value it was given, whether it raised, the tool and the
\* text it returned
Outcome(op, name, raised, tools, text) ==
    [op |-> op, name |-> name, raised |-> raised, tools |-> tools, text |-> text]

\* ToolRegistry.__init__ with tools=defs: the comprehension raises nothing
RegistryInit(defs) ==
    /\ definitions = defs
    /\ _tools = ToolRegistryInit(<<>>, defs)
    /\ registered = <<>>
    /\ reg_result = Outcome("__init__", JNull, FALSE, <<>>, <<>>)

\* the catalog of the session, which nothing registers into
SessionCatalog ==
    RegistryInit(<< read_file_tool, list_directory_tool,
                    write_file_tool, change_directory_tool >>)

\* line 20: self._tools[tool.name] = tool, for a name that is not a key
Register(reg, tool) == Append(reg, tool)

\* ToolRegistry.register
register(tool) ==
    /\ IF IndexOfName(_tools, tool.name) # 0
       THEN /\ reg_result' = Outcome("register", JStr(tool.name), TRUE, <<>>, <<>>)
            /\ UNCHANGED << _tools, registered >>
       ELSE /\ _tools' = Register(_tools, tool)
            /\ registered' = Append(registered, tool)
            /\ reg_result' = Outcome("register", JStr(tool.name), FALSE, <<>>, <<>>)
    /\ UNCHANGED definitions

\* ToolRegistry.get_tool called with name; tools holds the tool returned,
\* and is empty for None
Lookup(name) ==
    /\ LET got == get_tool(_tools, name)
       IN  reg_result' = Outcome("get_tool", name, got.raises,
                                 IF got.found THEN << _tools[got.index] >> ELSE <<>>,
                                 <<>>)
    /\ UNCHANGED << definitions, _tools, registered >>

\* ', '.join(pairs)
RECURSIVE Join(_, _)
Join(parts, sep) ==
    IF parts = <<>> THEN <<>>
    ELSE IF Len(parts) = 1 THEN Head(parts)
    ELSE Head(parts) \o << sep >> \o Join(Tail(parts), sep)

\* Tool.to_prompt_string: '- name(arg: type, ...): description'
to_prompt_string(tool) ==
    << "- ", tool.name, "(" >>
      \o Join([i \in 1..Len(tool.args_schema) |->
                  << tool.args_schema[i].name, ": ", tool.args_schema[i].type >>], ", ")
      \o << "): ", tool.description >>

\* lines 35-40 of registry.py
header == "You have access to the following tools. [...] Available Tools:\n"

\* a description that lists the newest tool first
PromptNewestFirst(reg) ==
    IF reg = <<>> THEN <<>>
    ELSE << header >>
           \o Join([i \in 1..Len(reg) |-> to_prompt_string(reg[Len(reg) + 1 - i])], "\n")

\* ToolRegistry.generate_prompt_string
generate_prompt_string(reg) ==
    IF reg = <<>> THEN <<>>
    ELSE << header >> \o Join([i \in 1..Len(reg) |-> to_prompt_string(reg[i])], "\n")

\* generate_prompt_string called on the catalog
Describe ==
    /\ reg_result' = Outcome("generate_prompt_string", JNull, FALSE, <<>>,
                             generate_prompt_string(_tools))
    /\ UNCHANGED << definitions, _tools, registered >>

(***************************************************************************)
(* The program around the session: main checks the backend and the model,  *)
(* builds the ChatSession, awaits its run and ends the process.            *)
(***************************************************************************)
VARIABLES
    main_pc,            \* where main stands: "health_check", "run" or "exited"
    exit_code,          \* the exit status of the process, -1 while it runs
    backend,            \* what answers at config.host
    model               \* config.model, "" when none was given

mainVars == << main_pc, exit_code, backend, model >>

\* what may answer at config.host: Ollama, another server, or nothing
Backends == {"ollama", "other_server", "unreachable"}

\* OllamaClient.health_check: status 200 with 'Ollama is running' in the
\* body; False for another answer and for httpx.RequestError
health_check(host) == host = "ollama"

\* main before its first await
MainInit ==
    /\ main_pc = "health_check"
    /\ exit_code = -1
    /\ backend \in Backends
    /\ model \in {"", "llama3"}

\* main at line 60: the checks have passed and session.run is awaited
SessionRunning ==
    /\ main_pc = "run"
    /\ exit_code = -1
    /\ backend = "ollama"
    /\ model = "llama3"

\* lines 50-52: the health check fails; main prints the error and returns
HealthCheckFails ==
    /\ main_pc = "health_check"
    /\ ~health_check(backend)
    /\ console' = "could_not_connect"
    /\ main_pc' = "exited"
    /\ exit_code' = 0
    /\ UNCHANGED << backend, model >>

\* lines 56-58: no model was given; main prints the error and returns
NoModel ==
    /\ main_pc = "health_check"
    /\ health_check(backend)
    /\ model = ""
    /\ console' = "no_model_specified"
    /\ main_pc' = "exited"
    /\ exit_code' = 0
    /\ UNCHANGED << backend, model >>

\* lines 59-60: the session is built and run
StartSession ==
    /\ main_pc = "health_check"
    /\ health_check(backend)
    /\ model # ""
    /\ console' = "welcome"
    /\ main_pc' = "run"
    /\ UNCHANGED << exit_code, backend, model >>

\* lines 60-67: run has returned, and main returns with it (status 0), or
\* an exception has left run, and main prints it and calls sys.exit(1)
MainReturns ==
    /\ main_pc = "run"
    /\ pc = "Ended"
    /\ main_pc' = "exited"
    /\ IF ended_by \in {"quit", "interrupt"}
       THEN /\ exit_code' = 0
            /\ UNCHANGED console
       ELSE /\ exit_code' = 1
            /\ console' = "error"
    /\ UNCHANGED << backend, model >>

vars == << sessionVars, pmVars, parserVars, registryVars, mainVars, toolVars >>

(***************************************************************************)
(* The session on its own: the catalog of ChatSession.__init__ holds no    *)
(* process tool, so the loop never reaches the supervisor.                 *)
(***************************************************************************)
Init == SessionInit /\ SupervisorInit /\ llm_response = <<>> /\ SessionCatalog /\ SessionRunning /\ SupervisorBuilt

Next ==
    \/ \E kind \in {"", "!"} : EmptyLine(kind) /\ UNCHANGED << pmVars, parserVars, registryVars, mainVars, toolVars >>
    \/ ExitLine /\ UNCHANGED << pmVars, parserVars, registryVars, mainVars, toolVars >>
    \/ \E target \in CdTargets : CdLine(target) /\ UNCHANGED << pmVars, parserVars, registryVars, mainVars, toolVars >>
    \/ \E target \in CdTargets : NestedCdLine(target) /\ UNCHANGED << pmVars, parserVars, registryVars, mainVars, toolVars >>
    \/ \E line \in ShellLines : ShellLine(line) /\ UNCHANGED << pmVars, parserVars, registryVars, mainVars, toolVars >>
    \/ ShellReturns /\ UNCHANGED << pmVars, parserVars, registryVars, mainVars, toolVars >>
    \/ TextLine /\ UNCHANGED << pmVars, parserVars, registryVars, mainVars, toolVars >>
    \/ \E text \in Responses : LLMResponds(text) /\ UNCHANGED << pmVars, parserVars, registryVars, mainVars, toolVars >>
    \/ StreamFails /\ UNCHANGED << pmVars, parserVars, registryVars, mainVars, toolVars >>
    \/ \E answer \in Answers : AnswerConfirmation(answer) /\ UNCHANGED << pmVars, parserVars, registryVars, mainVars, toolVars >>
    \/ ExecuteTool /\ UNCHANGED << pmVars, parserVars, registryVars, mainVars, toolVars >>
    \/ ExecuteDirectoryChange /\ UNCHANGED << pmVars, parserVars, registryVars, mainVars, toolVars >>
    \/ \E text \in Responses : FinalResponse(text) /\ UNCHANGED << pmVars, parserVars, registryVars, mainVars, toolVars >>
    \/ FinalStreamFails /\ UNCHANGED << pmVars, parserVars, registryVars, mainVars, toolVars >>
    \/ Interrupt /\ UNCHANGED << pmVars, parserVars, registryVars, mainVars, toolVars >>

Spec == Init /\ [][Next]_vars

\* the session with its subprocesses scheduled: a command that has ended
\* is returned from, and the loop goes on
ShellFairSpec ==
    Spec /\ WF_vars(ShellReturns /\ UNCHANGED << pmVars, parserVars, registryVars, mainVars, toolVars >>)

(***************************************************************************)
(* The supervisor on its own, driven by any sequence of calls.  It reads   *)
(* nothing of the session, whose home directory is fixed here.             *)
(***************************************************************************)
SupervisorStart == Init /\ home = <<"home">>

SupervisorNext ==
    \/ \E pid \in Pids : start_process(pid) /\ UNCHANGED << sessionVars, parserVars, registryVars, mainVars, toolVars >>
    \/ StartFails /\ UNCHANGED << sessionVars, parserVars, registryVars, mainVars, toolVars >>
    \/ \E pid \in Pids : ProcessPrints(pid) /\ UNCHANGED << sessionVars, parserVars, registryVars, mainVars, toolVars >>
    \/ \E pid \in Pids : ProcessClosesStdout(pid) /\ UNCHANGED << sessionVars, parserVars, registryVars, mainVars, toolVars >>
    \/ \E pid \in Pids : ProcessExits(pid) /\ UNCHANGED << sessionVars, parserVars, registryVars, mainVars, toolVars >>
    \/ \E pid \in Pids : ReaderLocks(pid) /\ UNCHANGED << sessionVars, parserVars, registryVars, mainVars, toolVars >>
    \/ \E pid \in Pids : ReaderQueuesLine(pid) /\ UNCHANGED << sessionVars, parserVars, registryVars, mainVars, toolVars >>
    \/ \E pid \in Pids : ReaderEnds(pid) /\ UNCHANGED << sessionVars, parserVars, registryVars, mainVars, toolVars >>
    \/ \E pid \in Pids : stop_process(pid) /\ UNCHANGED << sessionVars, parserVars, registryVars, mainVars, toolVars >>
    \/ \E pid \in Pids : StopEnds(pid) /\ UNCHANGED << sessionVars, parserVars, registryVars, mainVars, toolVars >>
    \/ \E pid \in Pids : get_output(pid) /\ UNCHANGED << sessionVars, parserVars, registryVars, mainVars, toolVars >>
    \/ \E pid \in Pids : ReadLocks(pid) /\ UNCHANGED << sessionVars, parserVars, registryVars, mainVars, toolVars >>
    \/ \E pid \in Pids : ReadUnlocks(pid) /\ UNCHANGED << sessionVars, parserVars, registryVars, mainVars, toolVars >>
    \/ list_pids /\ UNCHANGED << sessionVars, parserVars, registryVars, mainVars, toolVars >>

SupervisorSpec == SupervisorStart /\ [][SupervisorNext]_vars

\* the supervisor with its threads scheduled: a reader thread that has a
\* line gets the mutex of its queue however often the main thread takes
\* it, every queue operation ends, and a reader at the end of its stream
\* returns.  Nothing obliges the main thread to call the supervisor.
(***************************************************************************)
(* The classification on its own: a line has been typed, and the           *)
(* completion that arrives for it is any text of ParserTexts.              *)
(***************************************************************************)
ParserInit ==
    /\ pc = "Thinking"
    /\ messages = << Turn("user", "input", "", "") >>
    /\ home = <<"home">>
    /\ current_dir = home
    /\ session_memory_dir = home
    /\ system_prompt_dir = home
    /\ os_cwd = Realpath(home)
    /\ text_bound = FALSE
    /\ tool_request = NoPending
    /\ response = ""
    /\ console = "welcome"
    /\ ended_by = "none"
    /\ user_input = Line("text", PathArg("empty", <<>>))
    /\ line_start = 0
    /\ line_calls = <<>>
    /\ line_completions = 1
    /\ line_output = "none"
    /\ line_plan = <<>>
    /\ SupervisorInit
    /\ llm_response \in ParserTexts(MaxTextLen)
    /\ SessionCatalog
    /\ SessionRunning /\ SupervisorBuilt

ParserNext == LLMResponds(llm_response) /\ UNCHANGED << pmVars, parserVars, registryVars, mainVars, toolVars >>

ParserSpec == ParserInit /\ [][ParserNext]_vars

(***************************************************************************)
(* The catalog on its own: built from any list of up to MaxTools           *)
(* definitions, then used by any caller.                                   *)
(***************************************************************************)
RegistryStart ==
    /\ SessionInit /\ home = <<"home">>
    /\ SupervisorInit
    /\ llm_response = <<>>
    /\ \E defs \in SeqsUpTo(RegistryTools, MaxTools) : RegistryInit(defs)
    /\ SessionRunning /\ SupervisorBuilt

RegistryNext ==
    \/ \E tool \in RegistryTools :
           register(tool) /\ UNCHANGED << sessionVars, pmVars, parserVars, mainVars, toolVars >>
    \/ \E name \in LookupNames :
           Lookup(name) /\ UNCHANGED << sessionVars, pmVars, parserVars, mainVars, toolVars >>
    \/ Describe /\ UNCHANGED << sessionVars, pmVars, parserVars, mainVars, toolVars >>

RegistrySpec == RegistryStart /\ [][RegistryNext]_vars

(***************************************************************************)
(* The session in a process whose supervisor is in use: background         *)
(* processes are started and stopped through the ProcessManager (the       *)
(* catalog of ChatSession.__init__ has no tool that does it, so the calls  *)
(* come from beside the loop) while the loop reads lines, streams          *)
(* completions, asks confirmations and runs tools.                         *)
(***************************************************************************)
\* the completions of this session: one object, or one piece of prose
ShortResponses == SeqsUpTo(SessionTokens, 1)

BackgroundNext ==
    \/ TextLine /\ UNCHANGED << pmVars, parserVars, registryVars, mainVars, toolVars >>
    \/ \E text \in ShortResponses : LLMResponds(text) /\ UNCHANGED << pmVars, parserVars, registryVars, mainVars, toolVars >>
    \/ \E answer \in Answers : AnswerConfirmation(answer) /\ UNCHANGED << pmVars, parserVars, registryVars, mainVars, toolVars >>
    \/ ExecuteTool /\ UNCHANGED << pmVars, parserVars, registryVars, mainVars, toolVars >>
    \/ ExecuteDirectoryChange /\ UNCHANGED << pmVars, parserVars, registryVars, mainVars, toolVars >>
    \/ \E text \in ShortResponses : FinalResponse(text) /\ UNCHANGED << pmVars, parserVars, registryVars, mainVars, toolVars >>
    \/ Interrupt /\ UNCHANGED << pmVars, parserVars, registryVars, mainVars, toolVars >>
    \/ \E pid \in Pids : start_process(pid) /\ UNCHANGED << sessionVars, parserVars, registryVars, mainVars, toolVars >>
    \/ \E pid \in Pids : ProcessExits(pid) /\ UNCHANGED << sessionVars, parserVars, registryVars, mainVars, toolVars >>
    \/ \E pid \in Pids : stop_process(pid) /\ UNCHANGED << sessionVars, parserVars, registryVars, mainVars, toolVars >>
    \/ \E pid \in Pids : StopEnds(pid) /\ UNCHANGED << sessionVars, parserVars, registryVars, mainVars, toolVars >>

BackgroundSpec == SupervisorStart /\ [][BackgroundNext]_vars

SupervisorFairSpec ==
    /\ SupervisorSpec
    /\ WF_vars((\E pid \in Pids : ReadUnlocks(pid)) /\ UNCHANGED << sessionVars, parserVars, registryVars, mainVars, toolVars >>)
    /\ \A pid \in 1..MaxProcs :
           /\ SF_vars(ReaderLocks(pid) /\ UNCHANGED << sessionVars, parserVars, registryVars, mainVars, toolVars >>)
           /\ WF_vars((ReaderQueuesLine(pid) \/ ReaderEnds(pid)) /\ UNCHANGED << sessionVars, parserVars, registryVars, mainVars, toolVars >>)

(***************************************************************************)
(* The session on one line whose completion is a tool call: the completion *)
(* names a tool of extended_tools.all_new_tools or of the catalog of       *)
(* ChatSession.__init__, and the loop looks it up, asks the confirmation,  *)
(* runs the tool and streams the final completion.                         *)
(***************************************************************************)
\* extended_tools.all_new_tools: the names of the tools, in the order of the list
all_new_tools ==
    << "list_processes", "start_process", "stop_process", "create_file",
       "replace_file_content", "view_file", "find_by_name", "grep_search",
       "list_dir", "view_code_item", "codebase_search", "read_url_content",
       "search_web", "open_browser_url" >>

\* tool calls with the arguments the args_schema of the tool asks for
ToolCalls ==
    { Obj(TRUE, JStr("list_dir"), TRUE, ArgsDict({"directory_path"}, PathArg("rel", <<".">>)), <<>>),
      Obj(TRUE, JStr("start_process"), TRUE, ArgsDict({"command"}, PathArg("empty", <<>>)), <<>>),
      Obj(TRUE, JStr("stop_process"), TRUE, ArgsDict({"pid"}, PathArg("empty", <<>>)), <<>>),
      Obj(TRUE, JStr("list_directory"), TRUE, ArgsDict({"directory_path"}, PathArg("rel", <<".">>)), <<>>),
      ReadNotes }

\* the completions of this line: one tool call, bare, after prose or in a fence
CallTexts ==
    { text \in SeqsUpTo({ Tok("P"), Tok("FO") } \cup { ObjTok(o) : o \in ToolCalls }, MaxRespLen) :
          /\ \E i \in 1..Len(text) : text[i].t = "OBJ"
          /\ \A i, j \in 1..Len(text) : (text[i].t = "OBJ" /\ text[j].t = "OBJ") => i = j }

ToolCallInit ==
    /\ SessionInit
    /\ SupervisorInit
    /\ SessionCatalog
    /\ llm_response = <<>>
    /\ SessionRunning /\ SupervisorBuilt

\* line 343, with the completion kept as it arrived
CallArrives(text) ==
    /\ TextLine
    /\ llm_response' = text

ToolCallNext ==
    \/ \E text \in CallTexts : CallArrives(text) /\ UNCHANGED << pmVars, registryVars, mainVars, toolVars >>
    \/ LLMResponds(llm_response) /\ UNCHANGED << pmVars, parserVars, registryVars, mainVars, toolVars >>
    \/ \E answer \in Answers : AnswerConfirmation(answer) /\ UNCHANGED << pmVars, parserVars, registryVars, mainVars, toolVars >>
    \/ ExecuteTool /\ UNCHANGED << pmVars, parserVars, registryVars, mainVars, toolVars >>
    \/ \E text \in ShortResponses : FinalResponse(text) /\ UNCHANGED << pmVars, parserVars, registryVars, mainVars, toolVars >>
    \/ FinalStreamFails /\ UNCHANGED << pmVars, parserVars, registryVars, mainVars, toolVars >>

ToolCallSpec == ToolCallInit /\ [][ToolCallNext]_vars

(***************************************************************************)
(* The program from its start to its exit: the checks of main, then the    *)
(* session on lines of text, then the end of the process.                  *)
(***************************************************************************)
ProgramInit ==
    /\ SessionInit
    /\ SupervisorInit
    /\ SessionCatalog
    /\ llm_response = <<>>
    /\ MainInit
    /\ SupervisorBuilt

\* the part of the state main's steps leave alone
sessionRest ==
    << pc, messages, dirVars, home, text_bound, tool_request, response, ended_by, lineVars >>

ProgramNext ==
    \/ HealthCheckFails /\ UNCHANGED << sessionRest, pmVars, parserVars, registryVars, toolVars >>
    \/ NoModel /\ UNCHANGED << sessionRest, pmVars, parserVars, registryVars, toolVars >>
    \/ StartSession /\ UNCHANGED << sessionRest, pmVars, parserVars, registryVars, toolVars >>
    \/ main_pc = "run" /\ ExitLine /\ UNCHANGED << pmVars, parserVars, registryVars, mainVars, toolVars >>
    \/ main_pc = "run" /\ TextLine /\ UNCHANGED << pmVars, parserVars, registryVars, mainVars, toolVars >>
    \/ main_pc = "run" /\ (\E text \in ShortResponses : LLMResponds(text)) /\ UNCHANGED << pmVars, parserVars, registryVars, mainVars, toolVars >>
    \/ main_pc = "run" /\ StreamFails /\ UNCHANGED << pmVars, parserVars, registryVars, mainVars, toolVars >>
    \/ main_pc = "run" /\ (\E answer \in Answers : AnswerConfirmation(answer)) /\ UNCHANGED << pmVars, parserVars, registryVars, mainVars, toolVars >>
    \/ main_pc = "run" /\ ExecuteTool /\ UNCHANGED << pmVars, parserVars, registryVars, mainVars, toolVars >>
    \/ main_pc = "run" /\ ExecuteDirectoryChange /\ UNCHANGED << pmVars, parserVars, registryVars, mainVars, toolVars >>
    \/ main_pc = "run" /\ (\E text \in ShortResponses : FinalResponse(text)) /\ UNCHANGED << pmVars, parserVars, registryVars, mainVars, toolVars >>
    \/ main_pc = "run" /\ FinalStreamFails /\ UNCHANGED << pmVars, parserVars, registryVars, mainVars, toolVars >>
    \/ main_pc = "run" /\ Interrupt /\ UNCHANGED << pmVars, parserVars, registryVars, mainVars, toolVars >>
    \/ MainReturns /\ UNCHANGED << sessionRest, pmVars, parserVars, registryVars, toolVars >>

ProgramSpec == ProgramInit /\ [][ProgramNext]_vars

(***************************************************************************)
(* The process tools called in any order, beside the children they start,  *)
(* which end when they will and print nothing, and their reader threads.   *)
(***************************************************************************)
ProcessToolsInit ==
    /\ SessionInit /\ home = <<"home">>
    /\ SupervisorInit
    /\ SessionCatalog
    /\ llm_response = <<>>
    /\ SessionRunning
    /\ ToolsInit

ProcessToolsNext ==
    \/ StartToolBegins /\ UNCHANGED << sessionVars, parserVars, registryVars, mainVars >>
    \/ \E pid \in Pids : StartToolStarts(pid) /\ UNCHANGED << sessionVars, parserVars, registryVars, mainVars >>
    \/ StartToolFails /\ UNCHANGED << sessionVars, parserVars, registryVars, mainVars >>
    \/ StartToolReads /\ UNCHANGED << sessionVars, parserVars, registryVars, mainVars >>
    \/ \E pid \in Pids : ReadLocks(pid) /\ UNCHANGED << sessionVars, parserVars, registryVars, mainVars, toolVars >>
    \/ \E pid \in Pids : ReadUnlocks(pid) /\ UNCHANGED << sessionVars, parserVars, registryVars, mainVars, toolVars >>
    \/ StartToolReturns /\ UNCHANGED << sessionVars, parserVars, registryVars, mainVars >>
    \/ \E pid \in Pids : StopToolBegins(pid) /\ UNCHANGED << sessionVars, parserVars, registryVars, mainVars >>
    \/ StopToolStops /\ UNCHANGED << sessionVars, parserVars, registryVars, mainVars >>
    \/ \E pid \in Pids : StopEnds(pid) /\ UNCHANGED << sessionVars, parserVars, registryVars, mainVars, toolVars >>
    \/ StopToolReturns /\ UNCHANGED << sessionVars, parserVars, registryVars, mainVars >>
    \/ \E pid \in Pids : ProcessClosesStdout(pid) /\ UNCHANGED << sessionVars, parserVars, registryVars, mainVars, toolVars >>
    \/ \E pid \in Pids : ProcessExits(pid) /\ UNCHANGED << sessionVars, parserVars, registryVars, mainVars, toolVars >>
    \/ \E pid \in Pids : ReaderEnds(pid) /\ UNCHANGED << sessionVars, parserVars, registryVars, mainVars, toolVars >>

ProcessToolsSpec == ProcessToolsInit /\ [][ProcessToolsNext]_vars

(***************************************************************************)
(* The claims.                                                             *)
(***************************************************************************)
\* C1: a tool is executed (tool.func called, or the directory change of
\* change_directory performed) only from the step that follows a y or yes
\* given at the confirmation prompt of that same request, and the tool
\* executed is the one the prompt was for; the loop gets to that step only
\* by such an answer, never by n, no or an unrecognised answer.
ExecutionOnlyAfterYes ==
    [][ /\ Len(line_calls') > Len(line_calls) =>
             /\ pc = "Executing"
             /\ response \in {"y", "yes"}
             /\ line_calls' = Append(line_calls, tool_request.tool_name)
        /\ (pc' = "Executing" /\ pc # "Executing") =>
             /\ pc = "Confirming"
             /\ response' \in {"y", "yes"}
             /\ tool_request' = tool_request
        /\ pc = "Executing" => response \in {"y", "yes"} ]_vars

\* C1 witness: read_file has run, after a yes, and its result is in history
ExecutedAfterYes ==
    /\ pc = "FinalThinking"
    /\ line_calls = << "read_file" >>
    /\ response \in {"y", "yes"}

\* C2: after a no at the confirmation prompt, history is as long as it was
\* before the line was entered.
RejectionRollsBackUserTurn ==
    (pc = "AwaitingUserInput" /\ console = "cancelled") => Len(messages) = line_start

\* C3: no model output, no tool result and no failure inside a tool or a
\* directory change ends the session (a failure of the model gateway is
\* another matter and is left out here).
OnlyQuitOrInterruptEnds ==
    pc = "Ended" =>
        ended_by \notin {"tool_name_error", "arguments_error", "directory_change_error"}

\* C4: when the call of a confirmed tool raises, the loop goes on and the
\* error text is in history, as a user turn added for the current line.
ToolFailureFoldedIntoHistory ==
    (console = "error_executing" /\ line_completions = 1 /\ line_calls # <<>>) =>
        /\ pc # "Ended" \/ ended_by = "interrupt"
        /\ \E i \in (line_start + 1)..Len(messages) :
               /\ messages[i].role = "user"
               /\ messages[i].kind = "tool_message"
               /\ messages[i].result = "Error:"

\* C5: once a confirmed tool (change_directory included) has run and
\* produced a result, that result is in history as a user turn added for
\* the current line, before any further completion is requested.
ResultFoldedIntoHistory ==
    ( /\ line_calls # <<>>
      /\ pc \in {"AwaitingUserInput", "FinalThinking"}
      /\ ~(console = "error_executing" /\ line_completions = 1) ) =>
        \E i \in (line_start + 1)..Len(messages) :
            /\ messages[i].role = "user"
            /\ messages[i].kind = "tool_message"
            /\ messages[i].tool = line_calls[1]

\* C6: after the report of an unknown tool nothing was executed, no
\* confirmation was asked, the loop waits for the next line and history is
\* what it was before the line was entered.
UnknownToolLeavesHistory ==
    (console = "unknown_tool" /\ line_output # "none") =>
        /\ line_calls = <<>>
        /\ tool_request = NoPending
        /\ pc = "AwaitingUserInput" \/ ended_by = "interrupt"
        /\ Len(messages) = line_start

\* C7: a directory change to a path that is no existing directory, by a
\* confirmed change_directory call or by a '!cd' line, leaves the directory
\* state alone, prints an error and returns to AwaitingUserInput.
FailedDirectoryChangeReturnsToLoop ==
    [][ ( \/ ExecuteDirectoryChange /\ ~UpdateSucceeds(current_dir, tool_request.new_dir)
          \/ \E target \in CdTargets :
                 CdLine(target) /\ ~UpdateSucceeds(current_dir, target) ) =>
            /\ UNCHANGED dirVars
            /\ console' \in {"directory_not_found", "failed_to_change_directory"}
            /\ pc' = "AwaitingUserInput" ]_vars

\* C8: whenever the loop waits for a line, the directory in the system
\* prompt and the one in session_memory are the session's current
\* directory; a successful change_directory makes that directory the one
\* the target resolves to and the system prompt carries it.
DirectoryStateInSync ==
    /\ [](pc = "AwaitingUserInput" =>
              /\ system_prompt_dir = current_dir
              /\ session_memory_dir = current_dir)
    /\ [][ (ExecuteDirectoryChange /\ UpdateSucceeds(current_dir, tool_request.new_dir)) =>
              /\ current_dir' = Realpath(ResolveDir(current_dir, tool_request.new_dir))
              /\ system_prompt_dir' = current_dir'
              /\ session_memory_dir' = current_dir' ]_vars

\* C8 witness: a confirmed change_directory has moved the session from the
\* home directory to /home/proj
DirectoryChangedByTool ==
    /\ pc = "AwaitingUserInput"
    /\ console = "changed_directory"
    /\ line_calls = << "change_directory" >>
    /\ home = << "home" >>
    /\ current_dir = << "home", "proj" >>

\* C9: when the model has proposed a plan and the loop is back waiting for
\* a line, the tools executed are the first steps of the plan, in plan
\* order, and they are all of its steps unless the user rejected a step or
\* a step failed.
PlanStepsRunInOrder ==
    (pc = "AwaitingUserInput" /\ line_output = "plan") =>
        \E n \in 0..Len(line_plan) :
            /\ line_calls = SubSeq(line_plan, 1, n)
            /\ n < Len(line_plan) => console \in {"cancelled", "error_executing"}

\* C10: stop_process on an id the table does not hold returns False,
\* signals no process and leaves the table, every buffer and every status
\* flag as they were.
StopUnknownChangesNothing ==
    [][ \A pid \in Pids :
            (stop_process(pid) /\ pid \notin processes) =>
                /\ pm_result' = Result("stop", pid, FALSE, <<>>, {})
                /\ processes' = processes
                /\ managed' = managed
                /\ os_procs' = os_procs ]_vars

\* C10 witness: a stop on an unknown id has returned False while the table
\* holds a running process with buffered output
StoppedUnknownBesideTracked ==
    /\ pm_result.op = "stop"
    /\ ~pm_result.ok
    /\ pm_result.pid \notin processes
    /\ \E pid \in processes :
           managed[pid].is_running /\ managed[pid].output_queue # <<>>


\* the lines 1..n in the order the process printed them
Lines(n) == [i \in 1..n |-> i]

\* the lines of a process that have left its pipe for its queue
Queued(pid) == Lines(os_procs[pid].printed - Len(os_procs[pid].pipe))

\* s is the beginning of t
IsPrefix(s, t) == Len(s) <= Len(t) /\ s = SubSeq(t, 1, Len(s))

\* C11: a stop on a tracked id ends by deleting the id from the table and
\* returning True, whatever became of the process; an id the table has
\* dropped stays out, and stop and get_output on an id outside the table
\* return the not-found outcome.
StopRemovesTrackedId ==
    /\ [](pm_pc.op \in {"waiting", "removing"} => pm_pc.pid \in processes)
    /\ [][ \A pid \in Pids :
              /\ (stop_process(pid) /\ pid \in processes) =>
                     pm_pc'.op \in {"waiting", "removing"} /\ pm_pc'.pid = pid
              /\ StopEnds(pid) =>
                     /\ pid \notin processes'
                     /\ pm_result' = Result("stop", pid, TRUE, <<>>, {})
              /\ (pid \in DOMAIN managed /\ pid \notin processes) =>
                     /\ pid \notin processes'
                     /\ stop_process(pid) => pm_result' = Result("stop", pid, FALSE, <<>>, {})
                     /\ get_output(pid) => pm_result' = Result("get_output", pid, FALSE, <<>>, {})
          ]_vars

\* C11 witness: a stop has returned True for a process that had exited on
\* its own and was never signalled, and the table no longer holds its id
StoppedAfterOwnExit ==
    /\ pm_result.op = "stop"
    /\ pm_result.ok
    /\ pm_result.pid \notin processes
    /\ ~os_procs[pm_result.pid].alive
    /\ ~os_procs[pm_result.pid].terminate_sent
    /\ ~os_procs[pm_result.pid].kill_sent

\* C12: after a stop has returned True, a process that is still alive has
\* been sent a termination request.
SuccessfulStopSentTermination ==
    (pm_result.op = "stop" /\ pm_result.ok /\ os_procs[pm_result.pid].alive)
        => os_procs[pm_result.pid].terminate_sent

\* C13: get_output on a tracked id returns the lines the queue held when
\* it was called, followed by those queued while it read, and leaves the
\* queue empty: with what earlier calls returned, the lines returned are
\* exactly the lines queued so far.  On an id outside the table it returns
\* None and changes nothing.
DrainReturnsBufferedLines ==
    [][ \A pid \in Pids :
          /\ (ReadUnlocks(pid) /\ pm_pc' = Idle) =>
                 /\ pm_result'.op = "get_output" /\ pm_result'.ok
                 /\ IsPrefix(pm_pc.at_call, pm_result'.lines)
                 /\ managed'[pid].output_queue = <<>>
                 /\ drained[pid] \o pm_result'.lines = Queued(pid)
          /\ (get_output(pid) /\ pid \notin processes) =>
                 /\ pm_result' = Result("get_output", pid, FALSE, <<>>, {})
                 /\ UNCHANGED << processes, managed, os_procs, drained >>
      ]_vars

\* C13 witness: a second get_output has returned no line, the first one
\* having returned both lines of the process
DrainedTwiceSecondEmpty ==
    /\ pm_result.op = "get_output"
    /\ pm_result.ok
    /\ pm_result.lines = <<>>
    /\ drained[pm_result.pid] = Lines(MaxLines)

\* C14: start_process returns with the child alive; the reader thread
\* queues the lines in the order they were printed; the flag of a process
\* is cleared only once its stream is closed, and once the stream is
\* closed the flag is eventually cleared.
ReaderDrainsUntilStreamCloses ==
    /\ [][ \A pid \in Pids :
              /\ start_process(pid) =>
                     /\ pm_pc' = Idle
                     /\ os_procs'[pid].alive
                     /\ managed'[pid].is_running
              /\ ReaderQueuesLine(pid) =>
                     managed'[pid].output_queue =
                         Append(managed[pid].output_queue, Head(os_procs[pid].pipe))
          ]_vars
    /\ [](\A pid \in DOMAIN managed :
              ~managed[pid].is_running => ~os_procs[pid].stdout_open)
    /\ \A pid \in 1..MaxProcs :
           (pid \in DOMAIN os_procs /\ ~os_procs[pid].stdout_open)
               ~> (pid \in DOMAIN managed /\ ~managed[pid].is_running)

\* C14 witness: the flag of a process was cleared by its reader thread,
\* every line queued, with no call made since start_process
FlagClearedWithoutCall ==
    /\ pm_result.op = "start"
    /\ pm_result.ok
    /\ reader[pm_result.pid] = "done"
    /\ ~managed[pm_result.pid].is_running
    /\ managed[pm_result.pid].output_queue = Lines(MaxLines)

\* C15: the table changes only when a start succeeds, which adds the new
\* id, and when a stop succeeds, which deletes the stopped id; a failed
\* start leaves it alone, and list_pids returns the ids of the table.
ListReturnsStartedNotStopped ==
    [][ /\ processes' # processes =>
               \E pid \in Pids :
                   \/ /\ start_process(pid)
                      /\ processes' = processes \cup {pid}
                      /\ pm_result' = Result("start", pid, TRUE, <<>>, {})
                   \/ /\ StopEnds(pid)
                      /\ processes' = processes \ {pid}
                      /\ pm_result' = Result("stop", pid, TRUE, <<>>, {})
        /\ \A pid \in Pids : start_process(pid) => pid \in processes'
        /\ StartFails => processes' = processes
        /\ list_pids => pm_result'.pids = processes
      ]_vars

\* C15 witness: list_pids has returned the id of a process that exited on
\* its own and whose output was drained
ListedAfterExitAndDrain ==
    /\ pm_result.op = "list_pids"
    /\ \E pid \in pm_result.pids :
           /\ ~os_procs[pid].alive
           /\ reader[pid] = "done"
           /\ drained[pid] # <<>>

DrainAfterStartKeepsBuffer ==
    /\ [](\A pid \in DOMAIN managed :
              drained[pid]
                  \o (IF pm_pc.pid = pid THEN pm_pc.lines ELSE <<>>)
                  \o managed[pid].output_queue
                  \o os_procs[pid].pipe
              = Lines(os_procs[pid].printed))
    /\ [][ \A pid \in Pids :
              (ReadUnlocks(pid) /\ pm_pc' = Idle
                 /\ pm_result = Result("start", pid, TRUE, <<>>, {})) =>
                  /\ pm_result'.ok
                  /\ Len(pm_result'.lines) <= os_procs[pid].printed
                  /\ pm_result'.lines = Lines(Len(pm_result'.lines)) ]_vars

\* C17 witness: in a get_output called next after start_process the main
\* thread has taken a line while the reader thread is putting the next
DrainRacesReader ==
    /\ pm_result.op = "start"
    /\ pm_pc.op = "reading"
    /\ pm_pc.lines # <<>>
    /\ reader[pm_pc.pid] = "putting"

\* the completion holds one ```json block, closed, around a request for a
\* tool, and that block begins at token i
FencedRequestAt(text, i) ==
    /\ i + 2 <= Len(text)
    /\ text[i].t = "FO"
    /\ text[i + 1].t = "OBJ" /\ text[i + 1].obj.has_tool_name /\ text[i + 1].obj.has_arguments
    /\ text[i + 2].t = "FC"
    /\ \A j \in 1..Len(text) : text[j].t = "OBJ" => j = i + 1

\* C18: once a completion with a well-formed ```json block around a tool
\* request is classified, the request the loop asks the confirmation for
\* is the object of that block, whatever surrounds the block.
FencedRequestIsActedOn ==
    \A i \in 1..Len(llm_response) :
        (pc # "Thinking" /\ FencedRequestAt(llm_response, i)) =>
            /\ pc = "Confirming"
            /\ JStr(tool_request.tool_name) = llm_response[i + 1].obj.tool_name
            /\ tool_request.arguments = llm_response[i + 1].obj.arguments

\* no '{' of the text has a '}' at or behind it
NoBracePair(text) ==
    ~ \E i, j \in 1..Len(text) : i <= j /\ HasOpen(text[i]) /\ HasClose(text[j])

WrongShapeIsPlainAnswer ==
    (pc # "Thinking"
       /\ \A i \in 1..Len(llm_response) :
              llm_response[i].t = "OBJ" => ~llm_response[i].obj.has_tool_name) =>
        /\ pc = "AwaitingUserInput"
        /\ console = "answer"
        /\ ended_by = "none"

\* the loop took the output for a tool request: it looked the name up, and
\* asked the confirmation, reported an unknown tool or ended on the value
LoopTookRequest ==
    \/ pc = "Confirming"
    \/ console = "unknown_tool"
    \/ ended_by \in {"tool_name_error", "arguments_error"}

\* C21: the loop takes a completion for a tool request only if one of its
\* JSON objects has a tool_name field of its own (a plan whose steps name
\* tools is no request), and a request without an arguments field is asked
\* for confirmation with the empty mapping as its arguments.
OnlyNamedMappingsAreRequests ==
    (pc # "Thinking" /\ LoopTookRequest) =>
        \E i \in 1..Len(llm_response) :
            /\ llm_response[i].t = "OBJ"
            /\ llm_response[i].obj.has_tool_name
            /\ (pc = "Confirming" /\ ~llm_response[i].obj.has_arguments) =>
                   tool_request.arguments = EmptyArgs

HasDuplicateName(tools) ==
    \E i, j \in 1..Len(tools) : i < j /\ tools[i].name = tools[j].name

\* C23: the names of a catalog are unique; no catalog comes out of a
\* definition list that holds a name twice, and register of a name the
\* catalog has raises and leaves the catalog as it was.
DuplicateNamesAreErrors ==
    /\ [](~HasDuplicateName(_tools))
    /\ [](HasDuplicateName(definitions) => (reg_result.op = "__init__" /\ reg_result.raised))
    /\ [][(reg_result'.op = "register" /\ IndexOfName(_tools, reg_result'.name.s) # 0) =>
             (reg_result'.raised /\ _tools' = _tools)]_vars

\* the tools of the catalog that have this name
ToolsNamed(reg, n) == SelectSeq(reg, LAMBDA t : t.name = n)

\* C24: get_tool called with a string returns the tool the catalog holds
\* under that name, and None, raising nothing, when it holds none; no call
\* of get_tool changes the catalog.
LookupReturnsRegisteredTool ==
    [][reg_result'.op = "get_tool" =>
          /\ _tools' = _tools
          /\ reg_result'.name.type = "str" =>
                 /\ ~reg_result'.raised
                 /\ reg_result'.tools = ToolsNamed(_tools, reg_result'.name.s)]_vars

\* C24 witness: a lookup returned a tool that is not the first of the catalog
LookedUpLaterTool ==
    /\ reg_result.op = "get_tool"
    /\ Len(_tools) >= 2
    /\ reg_result.tools = << _tools[Len(_tools)] >>

\* the positions of the text where a line of the listing begins
LineStarts(text) == { i \in 1..Len(text) : text[i] = "- " }

\* the text has the line of this tool, whole, from position i on
HasLineAt(text, i, tool) ==
    /\ i + Len(to_prompt_string(tool)) - 1 <= Len(text)
    /\ SubSeq(text, i, i + Len(to_prompt_string(tool)) - 1) = to_prompt_string(tool)

\* C25: the text generate_prompt_string returns is a function of the
\* registrations in their order: empty for the empty catalog, and otherwise
\* one line per registered tool, in registration order, each the name, the
\* parenthesised arg: type pairs and the description of its tool.
DescriptionFollowsRegistrations ==
    (reg_result.op = "generate_prompt_string" /\ ~HasDuplicateName(definitions)) =>
        LET regs == definitions \o registered
            text == reg_result.text
        IN  /\ text = generate_prompt_string(regs)
            /\ regs = <<>> <=> text = <<>>
            /\ Cardinality(LineStarts(text)) = Len(regs)
            /\ \A k \in 1..Len(regs) :
                   \E i \in LineStarts(text) :
                       /\ Cardinality({ j \in LineStarts(text) : j < i }) = k - 1
                       /\ HasLineAt(text, i, regs[k])

\* C25 witness: a catalog built from a list and extended with register was
\* described
DescribedThreeTools ==
    /\ reg_result.op = "generate_prompt_string"
    /\ definitions # <<>>
    /\ registered # <<>>
    /\ Len(_tools) = 3

ExitLineEndsSession ==
    user_input.kind = "/exit" =>
        /\ pc = "Ended"
        /\ ended_by = "quit"
        /\ console = "goodbye"
        /\ Len(messages) = line_start
        /\ line_completions = 0
        /\ line_calls = <<>>

\* C27 witness: the session was ended with /exit after a tool had run for
\* an earlier line
QuitAfterToolCall ==
    /\ user_input.kind = "/exit"
    /\ pc = "Ended"
    /\ \E i \in 1..Len(messages) : messages[i].kind = "tool_message"

\* the lines that start with '!'
ShellEscapes == {"!", "!cd", "!!cd", "!command", "!server"}

TargetDirectory(cur, target) ==
    IF target.kind = "tilde" THEN home
    ELSE IF target.kind = "abs" THEN target.parts
    ELSE IF target.parts # <<>> /\ Head(target.parts) = "~"
    THEN Normpath(<<>>, home \o Tail(target.parts))
    ELSE Abspath(cur, target.parts)

\* C29: a '!cd <target>' line is handled without a subprocess, and when the
\* directory the target stands for exists, that directory is the working
\* directory of the session afterwards.
CdLineEntersTarget ==
    [][(pc = "AwaitingUserInput" /\ pc' = "AwaitingUserInput" /\ user_input'.kind = "!cd") =>
          /\ console' \in {"changed_directory", "directory_not_found"}
          /\ TargetDirectory(current_dir, user_input'.target) \in Dirs =>
                 Realpath(current_dir') =
                     Realpath(TargetDirectory(current_dir, user_input'.target))]_vars

\* a termination or a kill was sent to the process in this step
Signalled(pid) ==
    \/ os_procs'[pid].terminate_sent /\ ~os_procs[pid].terminate_sent
    \/ os_procs'[pid].kill_sent /\ ~os_procs[pid].kill_sent

NamedTool ==
    IF ClassifyResponse(llm_response).found
    THEN RequestedName(ClassifyResponse(llm_response))
    ELSE JNull

\* the line's completion names a tool of all_new_tools
NamesExtendedTool ==
    \E i \in 1..Len(all_new_tools) : NamedTool = JStr(all_new_tools[i])

\* C31: a tool call that names a tool of the extended catalog (list_dir,
\* start_process, stop_process) is resolved by the session's catalog and
\* asked for confirmation; it is never reported as an unknown tool.
ExtendedToolCallIsResolved ==
    (pc # "Thinking" /\ line_output = "tool_request" /\ NamesExtendedTool) =>
        /\ console # "unknown_tool"
        /\ pc = "AwaitingUserInput" => console \in {"cancelled", "answer", "error_executing"}

\* C32: a failure of the model gateway while a completion is streamed
\* (backend unreachable, timeout, HTTP error status, in-band error chunk)
\* ends the current turn only: it is reported and the loop returns to the
\* prompt; run never ends because of it, and the process does not exit on it.
GatewayFailureEndsTurnOnly ==
    ended_by = "gateway_error" => (pc # "Ended" /\ main_pc # "exited")

\* C33: when the health check fails or no model is given, no session is
\* started and the process ends with exit code 1.
StartupFailureExitsWithOne ==
    (~health_check(backend) \/ model = "") =>
        /\ main_pc # "run"
        /\ messages = <<>>
        /\ main_pc = "exited" => exit_code = 1

\* C34: every shell-command execution the loop starts ends, by itself or
\* cut off at a ceiling: the loop does not stay in it forever.
ShellCommandAlwaysEnds ==
    (pc = "RunningShell") ~> (pc # "RunningShell")

\* C36: a bare '!cd' line changes the working directory of the session to
\* the home directory, and no subprocess is started for it.
BareCdGoesHome ==
    (user_input = Line("!cd", PathArg("empty", <<>>))) =>
        /\ pc # "RunningShell"
        /\ console \notin {"executing", "shell_output"}
        /\ Realpath(current_dir) = Realpath(home)

\* a start_process call returned this pid before the i-th call returned
StartedBefore(i, pid) ==
    \E j \in 1..(i - 1) : tool_log[j] = Returned("start_process", pid, "Successfully started")

\* a stop_process call succeeded on this pid before the i-th call returned
StoppedBefore(i, pid) ==
    \E j \in 1..(i - 1) : tool_log[j] = Returned("stop_process", pid, "Successfully stopped")

\* C35: a construction of ProcessManager after the first one leaves the
\* table as it is, so that a stop_process call succeeds exactly when its pid
\* was returned by a start_process call and not stopped since: the first
\* stop_process on a started pid succeeds and every further one reports
\* that the process is not managed or was already stopped.
StartedPidStopsOnce ==
    /\ [](\A i \in 1..Len(tool_log) :
              tool_log[i].fn = "stop_process" =>
                  (tool_log[i].text = "Successfully stopped" <=>
                       (StartedBefore(i, tool_log[i].pid) /\ ~StoppedBefore(i, tool_log[i].pid))))
    /\ [][(_instance # "None" /\ tool_pc = NoCall /\ tool_pc' # NoCall) =>
              (processes' = processes /\ _instance' = _instance)]_vars

\* C35 witness: a started process was stopped, and stopped again
StoppedTwice ==
    tool_log = << Returned("start_process", 1, "Successfully started"),
                  Returned("stop_process", 1, "Successfully stopped"),
                  Returned("stop_process", 1, "Error: not managed or already stopped") >>

\* C37: whatever the interleaving of get_output calls with the reader
\* thread, the lines the calls on a process have returned so far, put end to
\* end, are the first lines the process printed, each once and in the order
\* of printing, and a call only adds to them.
DrainsArePrefixOfOutput ==
    /\ [](\A pid \in DOMAIN drained :
              IsPrefix(drained[pid], Lines(os_procs[pid].printed)))
    /\ [][\A pid \in DOMAIN drained : IsPrefix(drained[pid], drained'[pid])]_vars

\* C37 witness: two get_output calls have returned one line each while the
\* process was printing
DrainedLineByLine ==
    /\ pm_result.op = "get_output"
    /\ pm_result.lines = << 2 >>
    /\ drained[pm_result.pid] = << 1, 2 >>

\* C38: the history is append-only: every step of the loop (plain answer,
\* tool request, rejection, unknown tool, tool failure, shell escape, exit,
\* interrupt) leaves the turns the history holds where they are and as
\* they are, and at most adds turns after them.
HistoryIsAppendOnly ==
    [][IsPrefix(messages, messages')]_vars

\* C38 witness: a request was rejected in a session that had answered a
\* line before; the three turns entered so far are all there
RejectedAfterAnswer ==
    /\ pc = "AwaitingUserInput"
    /\ console = "cancelled"
    /\ Len(messages) = 3
    /\ messages[1].role = "user"
    /\ messages[2].role = "assistant"
    /\ messages[3] = Turn("user", "input", "", "")

\* C39: in every reachable state, a history that is not empty begins with a
\* user turn, and every assistant turn stands right after a user turn: two
\* assistant turns are never adjacent.
AssistantFollowsUser ==
    /\ messages # <<>> => messages[1].role = "user"
    /\ \A i \in 1..Len(messages) :
           messages[i].role = "assistant" => (i > 1 /\ messages[i - 1].role = "user")

\* C39 witness: a tool has run and the final completion was entered after
\* its result
AnsweredAfterToolResult ==
    /\ Len(messages) = 3
    /\ messages[2].kind = "tool_message"
    /\ messages[3].role = "assistant"

\* C40: for one line of input at most one tool is executed and at most two
\* completions are requested; the completion that follows a tool result is
\* entered in the history as an assistant turn and the loop returns to the
\* prompt, without a confirmation being asked or a tool being run for it.
OneToolTwoCompletionsPerLine ==
    /\ [](Len(line_calls) <= 1 /\ line_completions <= 2)
    /\ [][(pc = "FinalThinking" /\ console' = "answer") =>
              /\ messages' = Append(messages, messages'[Len(messages')])
              /\ messages'[Len(messages')].role = "assistant"
              /\ pc' = "AwaitingUserInput"
              /\ tool_request' = NoPending
              /\ line_calls' = line_calls
              /\ line_completions' = line_completions]_vars

\* C40 witness: the completion streamed after a tool result was itself the
\* text of a tool request, and stands in the history as an assistant turn
FinalCompletionWasRequest ==
    /\ pc = "AwaitingUserInput"
    /\ Len(line_calls) = 1
    /\ line_completions = 2
    /\ messages # <<>>
    /\ messages[Len(messages)] = Turn("assistant", "tool_call_text", "", "")

====
